---- MODULE Spec2Model ----
(***************************************************************************)
(* Identity and ledger reconciliation of the Wolvesville clan bot.         *)
(*                                                                         *)
(* The model covers MaintenanceService.process_ledger with the MongoDB     *)
(* collections it touches (users, processed_ledger, donation_history),     *)
(* IdentityService.resolve_member_identity on top of                       *)
(* MongoManager.resolve_profile_by_game_alias, and                         *)
(* MongoManager.link_player_profile with migrate_user_record.              *)
(*                                                                         *)
(* A username is a sequence of one-character strings, so that str.strip()  *)
(* and str.lower() are computed character by character.  Python's None is  *)
(* the value None below; it is different from the empty string << >>.      *)
(***************************************************************************)
EXTENDS Integers, Sequences, FiniteSets, TLC

(***************************************************************************)
(* Bounds of the model.                                                    *)
(***************************************************************************)
\* number of process_ledger coroutines that may exist
MaxProcs == 2
\* number of process_ledger runs started in one behaviour
MaxRuns == 2
\* number of ledger records the feed returns in one fetch
MaxBatch == 3
\* number of game usernames a profile's history may hold
MaxHistory == 2
\* number of mission runs (polls of the active mission, process_mission calls)
MaxMissionRuns == 2
\* number of participants the longest participant list of the roster has
MaxParticipants == 9
\* award_points calls in one behaviour
MaxAwards == 2
\* coroutines of the reward engine that run interleaved
MaxAwardProcs == 2
\* link_player_profile coroutines that run interleaved
MaxLinkProcs == 2
\* link_player_profile calls and refresh passes started in one behaviour
MaxLinkRuns == 3
\* finalize_profile_link callbacks dispatched in one behaviour
MaxDialogRuns == 2
\* largest number of whole units in an amount _compute_points is applied to
MaxUnits == 3

(***************************************************************************)
(* Strings.                                                                *)
(***************************************************************************)
None == <<"None">>

\* Python truthiness of an Optional[str]
Truthy(s) == s # None /\ s # << >>

LowerChar(c) ==
  CASE c = "A" -> "a"
    [] c = "B" -> "b"
    [] c = "C" -> "c"
    [] c = "D" -> "d"
    [] c = "E" -> "e"
    [] c = "F" -> "f"
    [] c = "G" -> "g"
    [] c = "H" -> "h"
    [] c = "I" -> "i"
    [] c = "J" -> "j"
    [] c = "K" -> "k"
    [] c = "L" -> "l"
    [] c = "M" -> "m"
    [] c = "N" -> "n"
    [] c = "O" -> "o"
    [] c = "P" -> "p"
    [] c = "Q" -> "q"
    [] c = "R" -> "r"
    [] c = "S" -> "s"
    [] c = "T" -> "t"
    [] c = "U" -> "u"
    [] c = "V" -> "v"
    [] c = "W" -> "w"
    [] c = "X" -> "x"
    [] c = "Y" -> "y"
    [] c = "Z" -> "z"
    [] OTHER -> c

\* str.lower()
Lower(s) == [i \in 1..Len(s) |-> LowerChar(s[i])]

IsSpace(c) == c = " "

RECURSIVE LStrip(_)
LStrip(s) == IF s # << >> /\ IsSpace(Head(s)) THEN LStrip(Tail(s)) ELSE s

RECURSIVE RStrip(_)
RStrip(s) ==
  IF s # << >> /\ IsSpace(s[Len(s)]) THEN RStrip(SubSeq(s, 1, Len(s) - 1)) ELSE s

\* str.strip()
Strip(s) == RStrip(LStrip(s))

\* the Python expression `a or b` on Optional[str]
OrElse(a, b) == IF Truthy(a) THEN a ELSE b

(***************************************************************************)
(* The usernames and the ledger feed of the model.                         *)
(***************************************************************************)
Foo == <<"F", "o", "o">>
foo == <<"f", "o", "o">>
Old == <<"O", "l", "d">>
Bar == <<"B", "a", "r">>
\* the former username Old as a donor may have it in the feed
OldPadded == <<" ", "o", "L", "D", " ">>
Blank == <<" ", " ">>

\* chat-platform ids; 0 stands for an absent id
NoTelegramId == 0
TelegramIds == {1, 2}

\* game account ids; NoWolvesvilleId stands for an absent id
NoWolvesvilleId == "none"
WolvesvilleIds == {"w1"}

\* what GET /clans/{id}/ledger may return: records with stable unique ids
LedgerFeed ==
  << [id |-> "r1", type |-> "DONATE", playerUsername |-> Foo, gold |-> 2000, gems |-> 0],
     [id |-> "r2", type |-> "DONATE", playerUsername |-> foo, gold |-> 500, gems |-> 100],
     [id |-> "r3", type |-> "DONATE", playerUsername |-> OldPadded, gold |-> 0, gems |-> 300],
     [id |-> "r4", type |-> "CLAN_QUEST_SHUFFLE", playerUsername |-> Foo, gold |-> 700, gems |-> 0],
     [id |-> "r5", type |-> "DONATE", playerUsername |-> Foo, gold |-> 0, gems |-> 0],
     [id |-> "r6", type |-> "DONATE", playerUsername |-> None, gold |-> 100, gems |-> 0],
     [id |-> "r7", type |-> "DONATE", playerUsername |-> Blank, gold |-> 100, gems |-> 0] >>

FeedRecords == {LedgerFeed[i] : i \in 1..Len(LedgerFeed)}

\* one fetch returns a window of the feed
Batches ==
  {SubSeq(LedgerFeed, a, b) :
     a \in 1..Len(LedgerFeed), b \in 1..Len(LedgerFeed)} \ {<< >>}

BoundedBatches == {b \in Batches : Len(b) <= MaxBatch}

\* usernames a /collega dialog or the periodic refresh may pass to link_player_profile
GameNames == {Old, Bar, Foo, foo, Blank}

\* strings passed to resolve_member_identity
ResolveInputs == {None, << >>, Blank, Old, OldPadded, Bar, Foo, foo}

Procs == 1..MaxProcs

VARIABLES
  users,              \* users collection: username -> Economy Record
  processed_ledger,   \* processed_ledger collection: set of record ids
  donation_history,   \* donation_history collection: record id -> audit entry
  rewards_history,    \* rewards_history collection: sequence of rows
  player_profiles,    \* player_profiles collection: telegram id -> profile
  pc,                 \* per process_ledger coroutine: the await it is suspended at
  batch,              \* per coroutine: ledger_data
  idx,                \* per coroutine: position of `record` in ledger_data
  identity,           \* per coroutine: the local `identity`
  runs,               \* number of process_ledger runs started
  resolved,           \* result of the last resolve_member_identity call made by a caller
  link_result,        \* result of the last link_player_profile call
  last_call,          \* the operation a caller outside the ledger poll ran last
  processed_active_missions,  \* processed_active_missions collection: set of mission ids
  missions_history,   \* missions_history collection: sequence of rows
  mission_run,        \* what the last mission run read, computed and did
  mission_runs,       \* number of mission runs started
  award_result,       \* what the last award_points call was given and returned
  award_runs,         \* number of award_points calls made
  award_procs,        \* per reward coroutine: its position and its locals
  points_call,        \* the last _compute_points call: config, amount, points returned
  admin_call,         \* what the last balance edit or departure check was given and did
  admin_runs,         \* number of balance edits and departure checks made
  link_procs,         \* per link_player_profile coroutine: its position and its locals
  link_runs,          \* number of stepwise link calls and dialog runs started
  link_call,          \* what the last caller of link_player_profile passed, and why
  verifications,      \* per chat id: the verification field and verification_history
  fsm_context,        \* per chat id: the FSM state and data of the /collega dialog
  dialog_run          \* what the last /collega handler was dispatched on, read and did

missionvars == <<processed_active_missions, missions_history, mission_run, mission_runs>>

rewardvars == <<award_result, award_runs, award_procs, points_call>>

adminvars == <<admin_call, admin_runs>>

linkvars == <<link_procs, link_runs, link_call, verifications, fsm_context, dialog_run>>

\* the state of the callers outside the ledger poll and the identity layer
othervars == <<last_call, missionvars, rewardvars, adminvars, linkvars>>

vars == <<users, processed_ledger, donation_history, rewards_history,
          player_profiles, pc, batch, idx, identity, runs, resolved, link_result,
          othervars>>

stores == <<users, processed_ledger, donation_history, rewards_history>>

(***************************************************************************)
(* MongoManager: the users collection.                                     *)
(***************************************************************************)
\* a users document created by an upsert; an absent counter reads as 0
NewUserDoc == [Oro |-> 0, Gem |-> 0, reward_points |-> 0, achievements |-> {}]

\* MongoManager._normalize_currency for the two currencies process_ledger passes
NormalizeCurrency(currency) ==
  CASE Lower(currency) \in {<<"g", "o", "l", "d">>, <<"o", "r", "o">>} -> "Oro"
    [] Lower(currency) \in {<<"g", "e", "m">>, <<"g", "e", "m", "s">>,
                            <<"g", "e", "m", "m", "e">>} -> "Gem"
    [] OTHER -> "Other"

\* variant of BalanceKey: the filter lowercases the username
BalanceKeyLowercased(username) == Lower(username)

\* the key update_user_balance filters and upserts on
BalanceKey(username) == username

\* MongoManager.update_user_balance: $inc with upsert, one atomic storage operation
UpdateUserBalance(col, username, currency, amount) ==
  LET key == BalanceKey(username)
      doc == IF key \in DOMAIN col THEN col[key] ELSE NewUserDoc
      new == IF NormalizeCurrency(currency) = "Oro"
             THEN [doc EXCEPT !.Oro = @ + amount]
             ELSE IF NormalizeCurrency(currency) = "Gem"
                  THEN [doc EXCEPT !.Gem = @ + amount]
                  ELSE doc
  IN  [k \in DOMAIN col \cup {key} |-> IF k = key THEN new ELSE col[k]]

\* MongoManager.migrate_user_record: rename or merge the users documents
MigrateStatus(col, old_username, new_username) ==
  IF ~Truthy(old_username) \/ ~Truthy(new_username) \/ old_username = new_username
  THEN "unchanged"
  ELSE IF old_username \notin DOMAIN col THEN "missing_old"
  ELSE IF new_username \notin DOMAIN col THEN "renamed"
  ELSE "merged"

\* variant of MergedDoc: the document of the new username is kept as it is
MergedDocKeepsNew(old_doc, new_doc) == new_doc

\* the $set payload of a merge: _merge_donation_maps, summed points, united achievements
MergedDoc(old_doc, new_doc) ==
  [Oro |-> old_doc.Oro + new_doc.Oro,
   Gem |-> old_doc.Gem + new_doc.Gem,
   reward_points |-> old_doc.reward_points + new_doc.reward_points,
   achievements |-> old_doc.achievements \cup new_doc.achievements]

\* variant of MigrateUserRecord: the document of the old username is copied
\* to the new username and stays
MigrateUserRecordCopying(col, old_username, new_username) ==
  IF MigrateStatus(col, old_username, new_username) \in {"renamed", "merged"}
  THEN [k \in DOMAIN col \cup {new_username} |->
          IF k = new_username THEN col[old_username] ELSE col[k]]
  ELSE col

MigrateUserRecord(col, old_username, new_username) ==
  LET status == MigrateStatus(col, old_username, new_username)
  IN  IF status = "renamed"
      THEN [k \in (DOMAIN col \ {old_username}) \cup {new_username} |->
              IF k = new_username THEN col[old_username] ELSE col[k]]
      ELSE IF status = "merged"
      THEN [k \in DOMAIN col \ {old_username} |->
              IF k = new_username
              THEN MergedDoc(col[old_username], col[new_username])
              ELSE col[k]]
      ELSE col

(***************************************************************************)
(* MongoManager: idempotency markers and the donation audit trail.         *)
(***************************************************************************)
\* variant of HasProcessedLedger: the lookup never finds the marker
HasProcessedLedgerNever(col, record_id) == FALSE

\* MongoManager.has_processed_ledger
HasProcessedLedger(col, record_id) ==
  IF record_id = "" THEN FALSE ELSE record_id \in col

\* MongoManager.mark_ledger_processed: replace_one with upsert
MarkLedgerProcessed(col, record_id) ==
  IF record_id = "" THEN col ELSE col \cup {record_id}

\* MongoManager.log_donation: replace_one with upsert, keyed by the record id
LogDonation(col, record_id, username, gold_amount, gems_amount, original_username, match_source, telegram_id) ==
  IF record_id = "" \/ ~Truthy(username)
  THEN col
  ELSE LET entry == [username |-> username,
                     gold |-> gold_amount,
                     gems |-> gems_amount,
                     original_username |-> original_username,
                     identity_match |-> match_source,
                     telegram_id |-> telegram_id]
       IN  [k \in DOMAIN col \cup {record_id} |->
              IF k = record_id THEN entry ELSE col[k]]

(***************************************************************************)
(* MongoManager.resolve_profile_by_game_alias and                          *)
(* IdentityService.resolve_member_identity.                                *)
(***************************************************************************)
HistoryEntry(username) == [username |-> username, username_lower |-> Lower(username)]

\* re.compile(rf"^{re.escape(name)}$", re.IGNORECASE) matched against a stored username
RegexMatchIgnoreCase(name, stored) ==
  /\ Len(stored) = Len(name)
  /\ \A i \in 1..Len(name) : LowerChar(stored[i]) = LowerChar(name[i])

\* variant of ProfilesByCurrent: the filter compares the username as stored
ProfilesByCurrentExact(profiles, lower) ==
  {t \in DOMAIN profiles : profiles[t].game_username = lower}

\* the profiles find_one may return for {"game_username_lower": lower}
ProfilesByCurrent(profiles, lower) ==
  {t \in DOMAIN profiles : profiles[t].game_username_lower = lower}

\* ... for {"game_username_history": {"$elemMatch": {"username_lower": lower}}}
ProfilesByHistoryLower(profiles, lower) ==
  {t \in DOMAIN profiles :
     \E i \in 1..Len(profiles[t].game_username_history) :
        profiles[t].game_username_history[i].username_lower = lower}

\* ... for {"game_username_history": {"$elemMatch": {"username": regex}}}
ProfilesByHistoryRegex(profiles, name) ==
  {t \in DOMAIN profiles :
     \E i \in 1..Len(profiles[t].game_username_history) :
        RegexMatchIgnoreCase(name, profiles[t].game_username_history[i].username)}

\* variant of Resolution: the name that was looked up is returned
ResolutionKeepsAlias(profiles, t, normalized_username, match) ==
  [profile |-> t, resolved_username |-> normalized_username, match |-> match]

Resolution(profiles, t, normalized_username, match) ==
  [profile |-> t,
   resolved_username |-> OrElse(profiles[t].game_username, normalized_username),
   match |-> match]

\* variant of ResolveProfileByGameAlias: the history is searched before the
\* current usernames
ResolveProfileByGameAliasHistoryFirst(profiles, game_username) ==
  IF ~Truthy(game_username) \/ Strip(game_username) = << >> THEN {}
  ELSE LET normalized_username == Strip(game_username)
           normalized_lower == Lower(normalized_username)
           current == ProfilesByCurrent(profiles, normalized_lower)
           history == ProfilesByHistoryLower(profiles, normalized_lower)
       IN  IF history # {}
           THEN {Resolution(profiles, t, normalized_username, "history") : t \in history}
           ELSE {Resolution(profiles, t, normalized_username, "current") : t \in current}

\* The set of results resolve_profile_by_game_alias may return; the empty set
\* stands for None.  find_one has no sort: when several documents match, any of
\* them may be the one returned.
ResolveProfileByGameAlias(profiles, game_username) ==
  IF ~Truthy(game_username) THEN {}
  ELSE LET normalized_username == Strip(game_username)
           normalized_lower == Lower(normalized_username)
           current == ProfilesByCurrent(profiles, normalized_lower)
           history == ProfilesByHistoryLower(profiles, normalized_lower)
           regex == ProfilesByHistoryRegex(profiles, normalized_username)
       IN  IF normalized_username = << >> THEN {}
           ELSE IF current # {}
           THEN {Resolution(profiles, t, normalized_username, "current") : t \in current}
           ELSE IF history # {}
           THEN {Resolution(profiles, t, normalized_username, "history") : t \in history}
           ELSE {Resolution(profiles, t, normalized_username, "history") : t \in regex}

\* variant of BaseIdentity: the resolved username is the input as given
BaseIdentityUntrimmed(username) ==
  [input_username |-> username,
   original_username |-> OrElse(Strip(OrElse(username, << >>)), None),
   resolved_username |-> OrElse(username, None),
   telegram_id |-> NoTelegramId,
   telegram_username |-> None,
   match |-> "None",
   profile |-> NoTelegramId]

\* the identity dict before the profile lookup
BaseIdentity(username) ==
  LET cleaned_username == Strip(OrElse(username, << >>))
  IN  [input_username |-> username,
       original_username |-> OrElse(cleaned_username, None),
       resolved_username |-> OrElse(cleaned_username, None),
       telegram_id |-> NoTelegramId,
       telegram_username |-> None,
       match |-> "None",
       profile |-> NoTelegramId]

\* The set of identities resolve_member_identity may return.
ResolveMemberIdentity(profiles, username) ==
  LET base == BaseIdentity(username)
      cleaned_username == Strip(OrElse(username, << >>))
      resolutions == ResolveProfileByGameAlias(profiles, cleaned_username)
  IN  IF cleaned_username = << >> \/ resolutions = {}
      THEN {base}
      ELSE {[base EXCEPT
               !.resolved_username = OrElse(r.resolved_username, cleaned_username),
               !.match = r.match,
               !.telegram_id = profiles[r.profile].telegram_id,
               !.telegram_username = profiles[r.profile].telegram_username,
               !.profile = r.profile] : r \in resolutions}

(***************************************************************************)
(* MongoManager.link_player_profile.  The verification payload and the     *)
(* full_name field take no part in resolution or in the ledger and are not *)
(* represented.                                                            *)
(***************************************************************************)
EmptyProfiles == [t \in {} |-> 0]
EmptyUsers == [u \in {} |-> NewUserDoc]
EmptyDonations == [r \in {} |-> 0]

NoLinkResult ==
  [status |-> "none", reason |-> "none", created |-> FALSE,
   game_username_changed |-> FALSE, previous_game_username |-> None,
   telegram_username_changed |-> FALSE, migrate_result |-> "none"]

\* what a find_one over the candidate documents may return; 0 stands for None
FindOne(candidates) == IF candidates = {} THEN {NoTelegramId} ELSE candidates

ProfilesByWolvesvilleId(profiles, wolvesville_id) ==
  {t \in DOMAIN profiles : profiles[t].wolvesville_id = wolvesville_id}

\* variant of PushHistory: the entry is pushed whether or not the value changed
PushHistoryAlways(history, push, username) == Append(history, HistoryEntry(username))

\* variant of PushHistory: the pushed entry replaces the stored entries
PushHistoryReplacing(history, push, username) ==
  IF push THEN <<HistoryEntry(username)>> ELSE history

\* "$push": {field: {"$each": [value]}} when push_ops holds the field
PushHistory(history, push, username) ==
  IF push THEN Append(history, HistoryEntry(username)) ELSE history

\* variant of OwnedByOther: the lookup result is not compared with the caller
OwnedByOtherIgnored(found, telegram_id) == FALSE

\* existing_by_... and existing_by_....get("telegram_id") != telegram_id
OwnedByOther(found, telegram_id) == found # NoTelegramId /\ found # telegram_id

\* the document the upsert of link_player_profile leaves for telegram_id
LinkedProfile(profiles, telegram_id, normalized_username, telegram_username, wolvesville_id) ==
  LET existing == telegram_id \in DOMAIN profiles
      old == IF existing THEN profiles[telegram_id]
             ELSE [telegram_id |-> telegram_id,
                   game_username |-> None,
                   game_username_lower |-> None,
                   game_username_history |-> << >>,
                   telegram_username |-> None,
                   telegram_username_history |-> << >>,
                   wolvesville_id |-> NoWolvesvilleId]
      push_game == IF existing
                   THEN normalized_username # old.game_username
                   ELSE Truthy(normalized_username)
      push_telegram == IF existing
                       THEN telegram_username # None
                            /\ telegram_username # old.telegram_username
                       ELSE Truthy(telegram_username)
  IN  [telegram_id |-> telegram_id,
       game_username |-> normalized_username,
       game_username_lower |-> Lower(normalized_username),
       game_username_history |->
         PushHistory(old.game_username_history, push_game, normalized_username),
       telegram_username |->
         IF telegram_username # None THEN telegram_username ELSE old.telegram_username,
       telegram_username_history |->
         PushHistory(old.telegram_username_history, push_telegram, telegram_username),
       wolvesville_id |->
         IF wolvesville_id # NoWolvesvilleId THEN wolvesville_id ELSE old.wolvesville_id]

\* The outcomes of one link_player_profile call run to completion: the profile
\* store, the users collection and the returned dict.
LinkPlayerProfile(profiles, col, telegram_id, game_username, telegram_username, wolvesville_id) ==
  LET normalized_username == Strip(game_username)
      normalized_lower == Lower(normalized_username)
      existing == telegram_id \in DOMAIN profiles
      previous == IF existing THEN profiles[telegram_id].game_username ELSE None
      changed == existing /\ normalized_username # previous
      telegram_changed == /\ existing
                          /\ telegram_username # None
                          /\ telegram_username # profiles[telegram_id].telegram_username
      migrates == changed /\ Truthy(previous)
      Conflict(reason) ==
        [profiles |-> profiles, users |-> col,
         result |-> [NoLinkResult EXCEPT !.status = "conflict", !.reason = reason]]
      Linked ==
        [profiles |->
           [t \in DOMAIN profiles \cup {telegram_id} |->
              IF t = telegram_id
              THEN LinkedProfile(profiles, telegram_id, normalized_username,
                                 telegram_username, wolvesville_id)
              ELSE profiles[t]],
         users |-> IF migrates
                   THEN MigrateUserRecord(col, previous, normalized_username)
                   ELSE col,
         result |-> [status |-> "linked", reason |-> "none",
                     created |-> ~existing,
                     game_username_changed |-> changed,
                     previous_game_username |-> IF changed THEN previous ELSE None,
                     telegram_username_changed |-> telegram_changed,
                     migrate_result |->
                       IF migrates
                       THEN MigrateStatus(col, previous, normalized_username)
                       ELSE "none"]]
  IN  IF normalized_username = << >>
      THEN {[profiles |-> profiles, users |-> col,
             result |-> [NoLinkResult EXCEPT !.status = "error"]]}
      ELSE {IF OwnedByOther(by_username, telegram_id)
            THEN Conflict("game_username")
            ELSE IF wolvesville_id # NoWolvesvilleId /\ OwnedByOther(by_id, telegram_id)
                 THEN Conflict("wolvesville_id")
                 ELSE Linked :
              by_username \in FindOne(ProfilesByCurrent(profiles, normalized_lower)),
              by_id \in FindOne(ProfilesByWolvesvilleId(profiles, wolvesville_id))}

(***************************************************************************)
(* MongoManager.sync_telegram_metadata.  The full_name field is not        *)
(* represented, so a call that would only change it leaves the store as it *)
(* is.                                                                     *)
(***************************************************************************)
\* the document inserted for a chat id that has no profile yet
SyncedProfile(telegram_id, telegram_username) ==
  [telegram_id |-> telegram_id,
   game_username |-> None,
   game_username_lower |-> None,
   game_username_history |-> << >>,
   telegram_username |-> telegram_username,
   telegram_username_history |->
     IF Truthy(telegram_username) THEN <<HistoryEntry(telegram_username)>> ELSE << >>,
   wolvesville_id |-> NoWolvesvilleId]

\* the profile store one sync_telegram_metadata call run to completion leaves
SyncTelegramMetadata(profiles, telegram_id, telegram_username) ==
  IF telegram_id = NoTelegramId THEN profiles
  ELSE IF telegram_id \notin DOMAIN profiles
  THEN [t \in DOMAIN profiles \cup {telegram_id} |->
          IF t = telegram_id THEN SyncedProfile(telegram_id, telegram_username)
          ELSE profiles[t]]
  ELSE IF /\ telegram_username # None
          /\ telegram_username # profiles[telegram_id].telegram_username
  THEN [profiles EXCEPT
          ![telegram_id].telegram_username = telegram_username,
          ![telegram_id].telegram_username_history =
             Append(@, HistoryEntry(telegram_username))]
  ELSE profiles

(***************************************************************************)
(* Initial states.                                                         *)
(***************************************************************************)
Tg == <<"t", "g">>
\* chat usernames the callers pass to link_player_profile
TelegramNames == {Tg}

OroCurrency == <<"O", "r", "o">>
GemCurrency == <<"G", "e", "m">>

NoIdentity == BaseIdentity(None)

\* Profile stores the ledger runs start from: no profile at all, or the store
\* left by linking chat id 1 to Old and then renaming it to Bar.
RenamedProfiles ==
  {second.profiles :
     second \in UNION {LinkPlayerProfile(first.profiles, first.users, 1, Bar, Tg, "w1") :
                         first \in LinkPlayerProfile(EmptyProfiles, EmptyUsers, 1, Old,
                                                     Tg, "w1")}}

LedgerProfiles == {EmptyProfiles} \cup RenamedProfiles

InitStores ==
  /\ users = EmptyUsers
  /\ processed_ledger = {}
  /\ donation_history = EmptyDonations
  /\ rewards_history = << >>

\* no mission id
NoMissionId == ""

NoMissionRun ==
  [op |-> "none", mission_id |-> NoMissionId, mission_type |-> << >>, raw |-> << >>,
   resolved |-> << >>, cost |-> 0, outcome |-> "none"]

\* the option type of Python: None, or a value
Nothing == << >>
Some(value) == <<value>>

AwardProcs == 1..MaxAwardProcs

\* a reward coroutine that has not been called
IdleAward ==
  [pc |-> "idle", op |-> "none", username |-> None, point_type |-> None,
   amount |-> 0, points |-> 0, bonus_for |-> "", total |-> Nothing,
   snapshot |-> Nothing, history |-> << >>, i |-> 0, unlocked |-> << >>]

NoAward ==
  [input_username |-> None, input_point_type |-> None, input_amount |-> Nothing,
   username |-> None, awarded_points |-> 0, total_points |-> Nothing,
   point_type |-> None, new_achievements |-> << >>,
   evaluated |-> << >>, snapshot |-> Nothing, metrics_rows |-> 0]

\* no balance edit and no departure check was made
NoAdminCall ==
  [op |-> "none", username |-> None, db_key |-> << >>, value |-> Nothing,
   members |-> {}]

LinkProcs == 1..MaxLinkProcs

\* a link_player_profile coroutine that has not been called
IdleLink ==
  [pc |-> "idle", telegram_id |-> NoTelegramId, game_username |-> None,
   telegram_username |-> None, wolvesville_id |-> NoWolvesvilleId,
   existing_profile |-> Nothing, result |-> NoLinkResult]

\* no caller has passed anything to link_player_profile
NoLinkCall ==
  [via |-> "none", telegram_id |-> NoTelegramId, game_username |-> None,
   telegram_username |-> None, wolvesville_id |-> NoWolvesvilleId, verified |-> FALSE,
   outcome |-> "none"]

\* no profile has a verification field
NoVerifications == [t \in {} |-> 0]

\* LinkStates, and the state of a chat outside the dialog
NoState == "none"
WAITING_GAME_USERNAME == "WAITING_GAME_USERNAME"
WAITING_VERIFICATION == "WAITING_VERIFICATION"

\* state.get_data() of a cleared context: every data.get(...) is None
NoSessionData ==
  [pending_username |-> None, player_id |-> NoWolvesvilleId, verification_code |-> << >>]

\* the context of a chat that never ran /collega; handler is the position of
\* the finalize_profile_link coroutine of the chat
ClearedContext ==
  [state |-> NoState, data |-> NoSessionData, handler |-> "idle", from_user |-> None]

\* no /collega handler has run
NoDialogRun ==
  [handler |-> "none", telegram_id |-> NoTelegramId, state |-> NoState,
   session |-> NoSessionData, player_info |-> << >>, outcome |-> "none"]

InitCallers ==
  /\ last_call = "none"
  /\ processed_active_missions = {}
  /\ missions_history = << >>
  /\ mission_run = NoMissionRun
  /\ mission_runs = 0
  /\ award_result = NoAward
  /\ award_runs = 0
  /\ award_procs = [p \in AwardProcs |-> IdleAward]
  /\ points_call = [config |-> [mode |-> "fixed", per_amount |-> 1000, multiplier |-> 1,
                                min_points |-> 0, points |-> 0,
                                allow_negative |-> FALSE],
                    amount |-> 0, points |-> 0]
  /\ admin_call = NoAdminCall
  /\ admin_runs = 0
  /\ link_procs = [p \in LinkProcs |-> IdleLink]
  /\ link_runs = 0
  /\ link_call = NoLinkCall
  /\ fsm_context = [t \in TelegramIds |-> ClearedContext]
  /\ dialog_run = NoDialogRun

InitOthers ==
  /\ InitCallers
  /\ verifications = NoVerifications

InitCoroutines ==
  /\ pc = [p \in Procs |-> "idle"]
  /\ batch = [p \in Procs |-> << >>]
  /\ idx = [p \in Procs |-> 1]
  /\ identity = [p \in Procs |-> NoIdentity]
  /\ runs = 0
  /\ resolved = NoIdentity
  /\ link_result = NoLinkResult

InitProcs ==
  /\ InitCoroutines
  /\ InitOthers

\* an empty database
Init ==
  /\ InitStores
  /\ InitProcs
  /\ player_profiles = EmptyProfiles

\* a database whose profiles were linked before the first ledger poll
InitLedger ==
  /\ InitStores
  /\ InitProcs
  /\ player_profiles \in LedgerProfiles

(***************************************************************************)
(* MaintenanceService.process_ledger, one action per await.                *)
(***************************************************************************)
record(p) == batch[p][idx[p]]

Running(p) == pc[p] \notin {"idle", "done", "aborted"}

\* username and (gold_amount > 0 or gems_amount > 0)
HasDonation(rec) == Truthy(rec.playerUsername) /\ (rec.gold > 0 \/ rec.gems > 0)

IsDonate(rec) == rec.type = "DONATE"

procvars == <<pc, batch, idx, identity, runs>>

\* session.get(url): the response is a window of the feed
FetchLedger(p) ==
  /\ pc[p] \in {"idle", "done"}
  /\ runs < MaxRuns
  /\ \E b \in BoundedBatches : batch' = [batch EXCEPT ![p] = b]
  /\ idx' = [idx EXCEPT ![p] = 1]
  /\ identity' = [identity EXCEPT ![p] = NoIdentity]
  /\ pc' = [pc EXCEPT ![p] = "loop"]
  /\ runs' = runs + 1
  /\ UNCHANGED <<stores, player_profiles, resolved, link_result, othervars>>

\* response.status != 200: the run returns without reading any record
FetchRejected(p) ==
  /\ pc[p] \in {"idle", "done"}
  /\ runs < MaxRuns
  /\ batch' = [batch EXCEPT ![p] = << >>]
  /\ idx' = [idx EXCEPT ![p] = 1]
  /\ identity' = [identity EXCEPT ![p] = NoIdentity]
  /\ pc' = [pc EXCEPT ![p] = "done"]
  /\ runs' = runs + 1
  /\ UNCHANGED <<stores, player_profiles, resolved, link_result, othervars>>

\* variant of NextRecord: the loop does not test the record type
NextRecordUnfiltered(p) ==
  /\ pc[p] = "loop"
  /\ IF idx[p] > Len(batch[p])
     THEN pc' = [pc EXCEPT ![p] = "done"]
     ELSE pc' = [pc EXCEPT ![p] = "has_processed"]
  /\ UNCHANGED <<stores, player_profiles, batch, idx, identity, runs, resolved,
                 link_result, othervars>>

\* for record in ledger_data: ... if record_type != "DONATE": continue
NextRecord(p) ==
  /\ pc[p] = "loop"
  /\ IF idx[p] > Len(batch[p])
     THEN /\ pc' = [pc EXCEPT ![p] = "done"]
          /\ idx' = idx
     ELSE IF ~IsDonate(record(p))
          THEN /\ idx' = [idx EXCEPT ![p] = @ + 1]
               /\ pc' = pc
          ELSE /\ pc' = [pc EXCEPT ![p] = "has_processed"]
               /\ idx' = idx
  /\ UNCHANGED <<stores, player_profiles, batch, identity, runs, resolved, link_result, othervars>>

\* await has_processed_ledger(record_id), then the test on username and amounts
CheckProcessed(p) ==
  /\ pc[p] = "has_processed"
  /\ IF HasProcessedLedger(processed_ledger, record(p).id)
     THEN /\ idx' = [idx EXCEPT ![p] = @ + 1]
          /\ pc' = [pc EXCEPT ![p] = "loop"]
     ELSE /\ idx' = idx
          /\ pc' = [pc EXCEPT ![p] =
                      IF HasDonation(record(p)) THEN "resolve" ELSE "mark"]
  /\ UNCHANGED <<stores, player_profiles, batch, identity, runs, resolved, link_result, othervars>>

AfterResolve(p, ident) ==
  /\ identity' = [identity EXCEPT ![p] = ident]
  /\ pc' = [pc EXCEPT ![p] =
              IF ~Truthy(ident.resolved_username) THEN "mark_invalid"
              ELSE IF record(p).gold > 0 THEN "gold"
              ELSE "gems"]
  /\ UNCHANGED <<stores, player_profiles, batch, idx, runs, resolved, link_result, othervars>>

\* await resolve_member_identity(username)
ResolveIdentity(p) ==
  /\ pc[p] = "resolve"
  /\ \E ident \in ResolveMemberIdentity(player_profiles, record(p).playerUsername) :
        AfterResolve(p, ident)

\* await update_user_balance(resolved_username, "Oro", gold_amount)
IncrementGold(p) ==
  /\ pc[p] = "gold"
  /\ users' = UpdateUserBalance(users, identity[p].resolved_username, OroCurrency,
                                record(p).gold)
  /\ pc' = [pc EXCEPT ![p] = IF record(p).gems > 0 THEN "gems" ELSE "log"]
  /\ UNCHANGED <<processed_ledger, donation_history, rewards_history, player_profiles,
                 batch, idx, identity, runs, resolved, link_result, othervars>>

\* await update_user_balance(resolved_username, "Gem", gems_amount)
IncrementGems(p) ==
  /\ pc[p] = "gems"
  /\ users' = UpdateUserBalance(users, identity[p].resolved_username, GemCurrency,
                                record(p).gems)
  /\ pc' = [pc EXCEPT ![p] = "log"]
  /\ UNCHANGED <<processed_ledger, donation_history, rewards_history, player_profiles,
                 batch, idx, identity, runs, resolved, link_result, othervars>>

\* variant of WriteDonationLog: the audit entry is not written
WriteDonationLogSkipped(p) ==
  /\ pc[p] = "log"
  /\ pc' = [pc EXCEPT ![p] = "mark"]
  /\ UNCHANGED <<stores, player_profiles, batch, idx, identity, runs, resolved,
                 link_result, othervars>>

\* await log_donation(record_id, resolved_username, ...)
WriteDonationLog(p) ==
  /\ pc[p] = "log"
  /\ donation_history' =
       LogDonation(donation_history, record(p).id, identity[p].resolved_username,
                   record(p).gold, record(p).gems,
                   OrElse(identity[p].original_username, record(p).playerUsername),
                   identity[p].match, identity[p].telegram_id)
  /\ pc' = [pc EXCEPT ![p] = "mark"]
  /\ UNCHANGED <<users, processed_ledger, rewards_history, player_profiles,
                 batch, idx, identity, runs, resolved, link_result, othervars>>

\* the last statement of the loop body: await mark_ledger_processed(record_id, ...)
MarkProcessed(p) ==
  /\ pc[p] = "mark"
  /\ processed_ledger' = MarkLedgerProcessed(processed_ledger, record(p).id)
  /\ idx' = [idx EXCEPT ![p] = @ + 1]
  /\ identity' = [identity EXCEPT ![p] = NoIdentity]
  /\ pc' = [pc EXCEPT ![p] = "loop"]
  /\ UNCHANGED <<users, donation_history, rewards_history, player_profiles,
                 batch, runs, resolved, link_result, othervars>>

\* variant of MarkInvalid: the record is left without its marker
MarkInvalidUnmarked(p) ==
  /\ pc[p] = "mark_invalid"
  /\ idx' = [idx EXCEPT ![p] = @ + 1]
  /\ identity' = [identity EXCEPT ![p] = NoIdentity]
  /\ pc' = [pc EXCEPT ![p] = "loop"]
  /\ UNCHANGED <<stores, player_profiles, batch, runs, resolved, link_result, othervars>>

\* if not resolved_username: await mark_ledger_processed(record_id, ...); continue
MarkInvalid(p) ==
  /\ pc[p] = "mark_invalid"
  /\ processed_ledger' = MarkLedgerProcessed(processed_ledger, record(p).id)
  /\ idx' = [idx EXCEPT ![p] = @ + 1]
  /\ identity' = [identity EXCEPT ![p] = NoIdentity]
  /\ pc' = [pc EXCEPT ![p] = "loop"]
  /\ UNCHANGED <<users, donation_history, rewards_history, player_profiles,
                 batch, runs, resolved, link_result, othervars>>

\* A storage call of process_ledger raises.  process_ledger has no try/except,
\* so the exception leaves the loop and the coroutine; the call had no effect.
StorageError(p) ==
  /\ pc[p] \in {"has_processed", "gold", "gems", "log", "mark", "mark_invalid"}
  /\ pc' = [pc EXCEPT ![p] = "aborted"]
  /\ UNCHANGED <<stores, player_profiles, batch, idx, identity, runs, resolved,
                 link_result, othervars>>

\* The profile lookup raises inside resolve_member_identity, which catches the
\* exception and returns the identity it had built from the input alone.
ResolveError(p) ==
  /\ pc[p] = "resolve"
  /\ AfterResolve(p, BaseIdentity(record(p).playerUsername))

\* no other process_ledger coroutine is between its fetch and its return
Alone(p) == \A q \in Procs \ {p} : ~Running(q)

Step(p) ==
  \/ NextRecord(p)
  \/ CheckProcessed(p)
  \/ ResolveIdentity(p)
  \/ IncrementGold(p)
  \/ IncrementGems(p)
  \/ WriteDonationLog(p)
  \/ MarkProcessed(p)
  \/ MarkInvalid(p)

\* polling cycles that do not overlap, no storage failure
Next ==
  \E p \in Procs :
    \/ Alone(p) /\ FetchLedger(p)
    \/ Alone(p) /\ FetchRejected(p)
    \/ Step(p)

Spec == InitLedger /\ [][Next]_vars

\* two process_ledger coroutines interleaving at their awaits
NextOverlap ==
  \E p \in Procs :
    \/ FetchLedger(p)
    \/ FetchRejected(p)
    \/ Step(p)

SpecOverlap == InitLedger /\ [][NextOverlap]_vars

\* polling cycles that do not overlap, with storage failures
NextFailing ==
  \E p \in Procs :
    \/ Alone(p) /\ FetchLedger(p)
    \/ Alone(p) /\ FetchRejected(p)
    \/ Step(p)
    \/ StorageError(p)
    \/ ResolveError(p)

SpecFailing == InitLedger /\ [][NextFailing]_vars

(***************************************************************************)
(* Callers of the identity layer: the /collega dialog and the periodic     *)
(* refresh call link_player_profile, every username lookup calls           *)
(* resolve_member_identity.  Each call runs to completion.                 *)
(***************************************************************************)
HistoryBounded(profiles) ==
  \A t \in DOMAIN profiles :
    Len(profiles[t].game_username_history) <= MaxHistory

LinkProfile(telegram_id, game_username, telegram_username, wolvesville_id) ==
  \E outcome \in LinkPlayerProfile(player_profiles, users, telegram_id, game_username,
                                   telegram_username, wolvesville_id) :
    /\ HistoryBounded(outcome.profiles)
    /\ player_profiles' = outcome.profiles
    /\ users' = outcome.users
    /\ link_result' = outcome.result
    /\ resolved' = NoIdentity
    /\ last_call' = "link"
    /\ UNCHANGED <<processed_ledger, donation_history, rewards_history, procvars,
                   missionvars, rewardvars, adminvars, linkvars>>

ResolveCall(username) ==
  \E ident \in ResolveMemberIdentity(player_profiles, username) :
    /\ resolved' = ident
    /\ link_result' = NoLinkResult
    /\ last_call' = "resolve"
    /\ UNCHANGED <<stores, player_profiles, procvars, missionvars, rewardvars, adminvars, linkvars>>

\* variant of LookupFailedIdentity: the failed call returns no username at all
LookupFailedIdentityEmpty(username) ==
  [BaseIdentity(username) EXCEPT !.resolved_username = None]

\* except Exception: ... return identity
LookupFailedIdentity(username) == BaseIdentity(username)

\* resolve_profile_by_game_alias raises; the lookup is only made for a name
\* that is not empty after trimming
ResolveCallFailing(username) ==
  /\ Strip(OrElse(username, << >>)) # << >>
  /\ resolved' = LookupFailedIdentity(username)
  /\ link_result' = NoLinkResult
  /\ last_call' = "resolve_failed"
  /\ UNCHANGED <<stores, player_profiles, procvars, missionvars, rewardvars, adminvars, linkvars>>

NextIdentity ==
  \/ \E t \in TelegramIds, g \in GameNames, n \in TelegramNames,
        w \in WolvesvilleIds \cup {NoWolvesvilleId} : LinkProfile(t, g, n, w)
  \/ \E username \in ResolveInputs : ResolveCall(username)

SpecIdentity == Init /\ [][NextIdentity]_vars

(***************************************************************************)
(* The profile store together with the Economy Records: the /collega       *)
(* dialog and refresh_linked_profiles call link_player_profile, every      *)
(* incoming update calls sync_telegram_metadata, lookups call              *)
(* resolve_member_identity and the profile lookup inside it may raise.     *)
(***************************************************************************)
\* Economy Records the ledger and the reward engine have left for Old and Bar
OldRecord ==
  [Oro |-> 100, Gem |-> 40, reward_points |-> 5,
   achievements |-> {"FIRST_DONATION", "DAILY_GRINDER"}]

BarRecord ==
  [Oro |-> 10, Gem |-> 0, reward_points |-> 2, achievements |-> {"FIRST_DONATION"}]

OnlyOld == [u \in {Old} |-> OldRecord]

OldAndBar == [u \in {Old, Bar} |-> IF u = Old THEN OldRecord ELSE BarRecord]

ProfileUsers == {EmptyUsers, OnlyOld, OldAndBar}

\* strings looked up while the Economy Records exist
LookupInputs == {None, OldPadded, Foo}

InitProfiles ==
  /\ users \in ProfileUsers
  /\ processed_ledger = {}
  /\ donation_history = EmptyDonations
  /\ rewards_history = << >>
  /\ InitProcs
  /\ player_profiles = EmptyProfiles

SyncTelegram(telegram_id, telegram_username) ==
  /\ player_profiles' = SyncTelegramMetadata(player_profiles, telegram_id,
                                             telegram_username)
  /\ resolved' = NoIdentity
  /\ link_result' = NoLinkResult
  /\ last_call' = "sync"
  /\ UNCHANGED <<stores, procvars, missionvars, rewardvars, adminvars, linkvars>>

NextProfiles ==
  \/ \E t \in TelegramIds, g \in GameNames, n \in TelegramNames,
        w \in WolvesvilleIds \cup {NoWolvesvilleId} : LinkProfile(t, g, n, w)
  \/ \E t \in TelegramIds \cup {NoTelegramId}, n \in TelegramNames \cup {None} :
        SyncTelegram(t, n)
  \/ \E username \in LookupInputs : ResolveCall(username)
  \/ \E username \in LookupInputs : ResolveCallFailing(username)

SpecProfiles == InitProfiles /\ [][NextProfiles]_vars

(***************************************************************************)
(* MissionService: process_active_mission_auto, polled by the scheduler,   *)
(* and process_mission.  Each run is taken to completion; no other         *)
(* coroutine runs between its awaits.                                      *)
(***************************************************************************)
GoldCurrency == <<"G", "o", "l", "d">>
Unknown == <<"U", "n", "k", "n", "o", "w", "n">>

Ann == <<"A", "n", "n">>
Bob == <<"B", "o", "b">>

\* the clan members a mission may list, one of them under a former username
\* and one entry with a blank username
Roster ==
  <<Foo, Blank, Old, Bar, Ann, Bob, <<"C", "i", "d">>, <<"D", "a", "n">>,
    <<"E", "v", "e">>, foo>>

Min(a, b) == IF a <= b THEN a ELSE b

\* participant lists a mission may carry
ParticipantLists ==
  {SubSeq(Roster, 1, n) : n \in 1..Min(MaxParticipants, Len(Roster))}
    \cup {<<Foo, Foo>>, <<Foo, Blank, Ann, Blank, Bob>>, <<Blank>>}

\* "participants" of GET /clans/{id}/quests/active: an entry may lack its username
ActiveParticipantLists == ParticipantLists \cup {<<None>>}

\* "quest" of GET /clans/{id}/quests/active
ActiveQuests ==
  {[id |-> "m1", purchasableWithGems |-> FALSE],
   [id |-> "m2", purchasableWithGems |-> TRUE]}

\* arguments of process_mission
ManualMissionTypes == {<<"g", "o", "l", "d">>, GemCurrency}
ManualMissionIds == {NoMissionId, "m2"}

\* variant of HasProcessedActiveMission: the lookup never finds the marker
HasProcessedActiveMissionNever(col, mission_id) == FALSE

\* MongoManager.has_processed_active_mission
HasProcessedActiveMission(col, mission_id) ==
  IF mission_id = NoMissionId THEN FALSE ELSE mission_id \in col

\* variant of MarkActiveMissionProcessed: no marker is written
MarkActiveMissionProcessedNever(col, mission_id) == col

\* MongoManager.mark_active_mission_processed: replace_one with upsert
MarkActiveMissionProcessed(col, mission_id) ==
  IF mission_id = NoMissionId THEN col ELSE col \cup {mission_id}

\* MongoManager.log_mission_participation: insert_one of a document with a
\* fresh event id; of the document the mission id, the mission type, the cost
\* and the source are represented
LogMissionParticipation(col, mission_id, mission_type, cost_per_participant, source) ==
  Append(col, [mission_id |-> mission_id,
               mission_type |-> mission_type,
               cost_per_participant |-> cost_per_participant,
               source |-> source])

\* raw_usernames = [p.get("username") for p in participants if p.get("username")]
RawUsernames(participants) == SelectSeq(participants, Truthy)

\* The lists resolved_identities the loop over the names may build: the
\* identities with a resolved username, in the order of the names.
RECURSIVE ResolveAll(_, _)
ResolveAll(profiles, names) ==
  IF names = << >> THEN {<< >>}
  ELSE UNION {{IF Truthy(ident.resolved_username) THEN <<ident>> \o rest ELSE rest :
                 rest \in ResolveAll(profiles, Tail(names))} :
                ident \in ResolveMemberIdentity(profiles, Head(names))}

\* variant of Headcount: every name of the mission is counted
HeadcountRaw(names, resolved_identities) == Len(names)

\* participant_count = len(resolved_identities)
Headcount(names, resolved_identities) == Len(resolved_identities)

\* the cost rule of process_active_mission_auto
ActiveMissionCost(mission_type, participant_count) ==
  IF mission_type = GoldCurrency THEN 500
  ELSE IF participant_count > 7 THEN 140
  ELSE IF 5 <= participant_count /\ participant_count <= 7 THEN 150
  ELSE 0

\* the cost rule of process_mission
MissionCost(mission_type, participant_count) ==
  IF Lower(mission_type) = Lower(GoldCurrency) THEN 500
  ELSE IF Lower(mission_type) = Lower(GemCurrency)
  THEN IF participant_count > 7 THEN 140
       ELSE IF 5 <= participant_count /\ participant_count <= 7 THEN 150
       ELSE 0
  ELSE 0

\* currency_key of process_mission
CurrencyKey(mission_type) ==
  IF Lower(mission_type) = Lower(GoldCurrency) THEN GoldCurrency
  ELSE IF Lower(mission_type) = Lower(GemCurrency) THEN GemCurrency
  ELSE mission_type

\* for identity in resolved_identities: await update_user_balance(..., -cost)
RECURSIVE DebitAll(_, _, _, _)
DebitAll(col, resolved_identities, currency, cost) ==
  IF resolved_identities = << >> THEN col
  ELSE DebitAll(UpdateUserBalance(col, Head(resolved_identities).resolved_username,
                                  currency, 0 - cost),
                Tail(resolved_identities), currency, cost)

ResolvedUsernames(resolved_identities) ==
  [i \in 1..Len(resolved_identities) |-> resolved_identities[i].resolved_username]

\* a run that returns before any write
MissionSkipped(col, history, processed, run) ==
  [users |-> col, history |-> history, processed |-> processed, run |-> run]

\* The outcomes of one process_active_mission_auto run for a response that
\* carries a quest with an id and a tierStartTime: the users collection, the
\* mission history, the markers and the locals of the run.
ProcessActiveMissionAuto(profiles, col, history, processed, quest, participants) ==
  LET mission_id == quest.id
      raw_usernames == RawUsernames(participants)
      mission_type == IF quest.purchasableWithGems THEN GemCurrency ELSE GoldCurrency
      base == [op |-> "auto", mission_id |-> mission_id, mission_type |-> mission_type,
               raw |-> raw_usernames, resolved |-> << >>, cost |-> 0,
               outcome |-> "none"]
      Processed(resolved_identities) ==
        LET participant_count == Headcount(raw_usernames, resolved_identities)
            cost == ActiveMissionCost(mission_type, participant_count)
        IN  [users |-> IF cost # 0
                       THEN DebitAll(col, resolved_identities, mission_type, cost)
                       ELSE col,
             history |-> LogMissionParticipation(history, mission_id, mission_type,
                                                 cost, "active_mission"),
             processed |-> MarkActiveMissionProcessed(processed, mission_id),
             run |-> [base EXCEPT !.resolved = ResolvedUsernames(resolved_identities),
                                  !.cost = cost,
                                  !.outcome = "processed"]]
  IN  IF HasProcessedActiveMission(processed, mission_id)
      THEN {MissionSkipped(col, history, processed,
                           [base EXCEPT !.outcome = "already_processed"])}
      ELSE IF raw_usernames = << >>
      THEN {MissionSkipped(col, history, processed,
                           [base EXCEPT !.outcome = "no_participants"])}
      ELSE {IF resolved_identities = << >>
            THEN MissionSkipped(col, history, processed,
                                [base EXCEPT !.outcome = "no_resolved"])
            ELSE Processed(resolved_identities) :
              resolved_identities \in ResolveAll(profiles, raw_usernames)}

\* The outcomes of one process_mission call.
ProcessMission(profiles, col, history, processed, participants, mission_type_arg, mission_id) ==
  LET mission_type == OrElse(mission_type_arg, Unknown)
      base == [op |-> "manual", mission_id |-> mission_id, mission_type |-> mission_type,
               raw |-> participants, resolved |-> << >>, cost |-> 0, outcome |-> "none"]
      Processed(resolved_identities) ==
        LET participant_count == Headcount(participants, resolved_identities)
            cost == MissionCost(mission_type, participant_count)
        IN  [users |-> IF cost # 0
                       THEN DebitAll(col, resolved_identities, CurrencyKey(mission_type),
                                     cost)
                       ELSE col,
             history |-> LogMissionParticipation(history, mission_id, mission_type,
                                                 cost, "manual"),
             processed |-> processed,
             run |-> [base EXCEPT !.resolved = ResolvedUsernames(resolved_identities),
                                  !.cost = cost,
                                  !.outcome = "processed"]]
  IN  IF participants = << >>
      THEN {MissionSkipped(col, history, processed,
                           [base EXCEPT !.outcome = "no_participants"])}
      ELSE {IF resolved_identities = << >>
            THEN MissionSkipped(col, history, processed,
                                [base EXCEPT !.outcome = "no_resolved"])
            ELSE Processed(resolved_identities) :
              resolved_identities \in ResolveAll(profiles, participants)}

missionframe ==
  <<processed_ledger, donation_history, rewards_history, player_profiles, procvars,
    resolved, link_result, rewardvars, adminvars, linkvars>>

AfterMission(outcome, call) ==
  /\ users' = outcome.users
  /\ missions_history' = outcome.history
  /\ processed_active_missions' = outcome.processed
  /\ mission_run' = outcome.run
  /\ mission_runs' = mission_runs + 1
  /\ last_call' = call
  /\ UNCHANGED missionframe

\* one poll of the scheduler job process_active_mission_auto
PollActiveMission(quest, participants) ==
  /\ mission_runs < MaxMissionRuns
  /\ \E outcome \in ProcessActiveMissionAuto(player_profiles, users, missions_history,
                                              processed_active_missions, quest,
                                              participants) :
        AfterMission(outcome, "mission_auto")

\* resp.status != 200, no quest, or a quest without id or tierStartTime
PollWithoutMission ==
  /\ mission_runs < MaxMissionRuns
  /\ AfterMission(MissionSkipped(users, missions_history, processed_active_missions,
                                 [NoMissionRun EXCEPT !.op = "auto",
                                                      !.outcome = "unavailable"]),
                  "mission_auto")

\* one process_mission call
CallProcessMission(participants, mission_type, mission_id) ==
  /\ mission_runs < MaxMissionRuns
  /\ \E outcome \in ProcessMission(player_profiles, users, missions_history,
                                    processed_active_missions, participants,
                                    mission_type, mission_id) :
        AfterMission(outcome, "mission_manual")

NextMissions ==
  \/ \E quest \in ActiveQuests, participants \in ActiveParticipantLists :
        PollActiveMission(quest, participants)
  \/ PollWithoutMission
  \/ \E participants \in ParticipantLists, mission_type \in ManualMissionTypes,
        mission_id \in ManualMissionIds :
        CallProcessMission(participants, mission_type, mission_id)

\* a database whose profile store holds the profile renamed from Old to Bar
InitMissions ==
  /\ InitStores
  /\ InitProcs
  /\ player_profiles \in RenamedProfiles

SpecMissions == InitMissions /\ [][NextMissions]_vars

(***************************************************************************)
(* RewardService.award_points and check_achievements over                  *)
(* RewardsRepository.  Each call is taken to completion.                   *)
(***************************************************************************)
UpperChar(c) ==
  CASE c = "a" -> "A"
    [] c = "b" -> "B"
    [] c = "c" -> "C"
    [] c = "d" -> "D"
    [] c = "e" -> "E"
    [] c = "f" -> "F"
    [] c = "g" -> "G"
    [] c = "h" -> "H"
    [] c = "i" -> "I"
    [] c = "j" -> "J"
    [] c = "k" -> "K"
    [] c = "l" -> "L"
    [] c = "m" -> "M"
    [] c = "n" -> "N"
    [] c = "o" -> "O"
    [] c = "p" -> "P"
    [] c = "q" -> "Q"
    [] c = "r" -> "R"
    [] c = "s" -> "S"
    [] c = "t" -> "T"
    [] c = "u" -> "U"
    [] c = "v" -> "V"
    [] c = "w" -> "W"
    [] c = "x" -> "X"
    [] c = "y" -> "Y"
    [] c = "z" -> "Z"
    [] OTHER -> c

\* str.upper()
Upper(s) == [i \in 1..Len(s) |-> UpperChar(s[i])]

DONATION_ORO ==
  <<"D", "O", "N", "A", "T", "I", "O", "N", "_", "O", "R", "O">>
DONATION_GEM ==
  <<"D", "O", "N", "A", "T", "I", "O", "N", "_", "G", "E", "M">>
MISSION_PARTICIPATION ==
  <<"M", "I", "S", "S", "I", "O", "N", "_", "P", "A", "R", "T", "I", "C", "I", "P", "A", "T", "I", "O", "N">>
MISSION_SUPPORT ==
  <<"M", "I", "S", "S", "I", "O", "N", "_", "S", "U", "P", "P", "O", "R", "T">>
DAILY_LOGIN == <<"D", "A", "I", "L", "Y", "_", "L", "O", "G", "I", "N">>
ACHIEVEMENT_BONUS ==
  <<"A", "C", "H", "I", "E", "V", "E", "M", "E", "N", "T", "_", "B", "O", "N", "U", "S">>
PENALTY == <<"P", "E", "N", "A", "L", "T", "Y">>

DonationConfig(multiplier, min_points) ==
  [mode |-> "donation", per_amount |-> 1000, multiplier |-> multiplier,
   min_points |-> min_points, points |-> 0, allow_negative |-> FALSE]

FixedConfig(points, allow_negative) ==
  [mode |-> "fixed", per_amount |-> 1000, multiplier |-> 1, min_points |-> 0,
   points |-> points, allow_negative |-> allow_negative]

\* mode ratio with ratio 0.5
RatioConfig ==
  [mode |-> "ratio", per_amount |-> 1000, multiplier |-> 1, min_points |-> 0,
   points |-> 0, allow_negative |-> FALSE]

POINTS_CONFIG ==
  DONATION_ORO :> DonationConfig(1, 1)
  @@ DONATION_GEM :> DonationConfig(2, 2)
  @@ MISSION_PARTICIPATION :> FixedConfig(5, FALSE)
  @@ <<"M", "I", "S", "S", "I", "O", "N", "_", "S", "U", "C", "C", "E", "S", "S">>
       :> FixedConfig(8, FALSE)
  @@ MISSION_SUPPORT :> RatioConfig
  @@ <<"W", "E", "E", "K", "L", "Y", "_", "B", "O", "N", "U", "S">>
       :> FixedConfig(10, FALSE)
  @@ <<"M", "O", "N", "T", "H", "L", "Y", "_", "B", "O", "N", "U", "S">>
       :> FixedConfig(50, FALSE)
  @@ <<"E", "V", "E", "N", "T", "_", "B", "O", "N", "U", "S">>
       :> FixedConfig(20, FALSE)
  @@ <<"T", "R", "A", "I", "N", "I", "N", "G", "_", "A", "T", "T", "E", "N", "D", "A", "N", "C", "E">>
       :> FixedConfig(3, FALSE)
  @@ <<"R", "A", "I", "D", "_", "V", "I", "C", "T", "O", "R", "Y">>
       :> FixedConfig(25, FALSE)
  @@ DAILY_LOGIN :> FixedConfig(1, FALSE)
  @@ ACHIEVEMENT_BONUS :> FixedConfig(0, FALSE)
  @@ PENALTY :> FixedConfig(0 - 5, TRUE)

POINT_TYPE_ALIASES ==
  <<"o", "r", "o">>
       :> DONATION_ORO
  @@ <<"g", "o", "l", "d">>
       :> DONATION_ORO
  @@ <<"d", "o", "n", "a", "t", "i", "o", "n", "_", "o", "r", "o">>
       :> DONATION_ORO
  @@ <<"g", "e", "m">>
       :> DONATION_GEM
  @@ <<"g", "e", "m", "s">>
       :> DONATION_GEM
  @@ <<"g", "e", "m", "m", "e">>
       :> DONATION_GEM
  @@ <<"d", "o", "n", "a", "t", "i", "o", "n", "_", "g", "e", "m">>
       :> DONATION_GEM
  @@ <<"s", "u", "p", "p", "o", "r", "t">>
       :> MISSION_SUPPORT
  @@ <<"m", "i", "s", "s", "i", "o", "n", "_", "s", "u", "p", "p", "o", "r", "t">>
       :> MISSION_SUPPORT
  @@ <<"t", "r", "a", "i", "n", "i", "n", "g">>
       :> <<"T", "R", "A", "I", "N", "I", "N", "G", "_", "A", "T", "T", "E", "N", "D", "A", "N", "C", "E">>
  @@ <<"a", "l", "l", "e", "n", "a", "m", "e", "n", "t", "o">>
       :> <<"T", "R", "A", "I", "N", "I", "N", "G", "_", "A", "T", "T", "E", "N", "D", "A", "N", "C", "E">>
  @@ <<"r", "a", "i", "d">>
       :> <<"R", "A", "I", "D", "_", "V", "I", "C", "T", "O", "R", "Y">>
  @@ <<"r", "a", "i", "d", "_", "v", "i", "c", "t", "o", "r", "y">>
       :> <<"R", "A", "I", "D", "_", "V", "I", "C", "T", "O", "R", "Y">>
  @@ <<"d", "a", "i", "l", "y">>
       :> DAILY_LOGIN
  @@ <<"l", "o", "g", "i", "n">>
       :> DAILY_LOGIN

\* RewardService._normalize_point_type; None when the type is unknown
NormalizePointType(point_type) ==
  IF ~Truthy(point_type) THEN None
  ELSE LET normalized == Upper(Strip(point_type))
       IN  IF normalized \in DOMAIN POINTS_CONFIG THEN normalized
           ELSE IF Lower(normalized) \in DOMAIN POINT_TYPE_ALIASES
           THEN POINT_TYPE_ALIASES[Lower(normalized)]
           ELSE None

\* RewardService._normalize_amount for None and for integers
NormalizeAmount(amount, allow_negative) ==
  IF amount = Nothing THEN 0
  ELSE IF ~allow_negative /\ amount[1] < 0 THEN 0
  ELSE amount[1]

\* int(round(amount * 0.5)): Python rounds a half to the even neighbour
RoundHalf(amount) ==
  LET floor == amount \div 2
  IN  IF amount % 2 = 0 THEN floor
      ELSE IF floor % 2 = 0 THEN floor
      ELSE floor + 1

\* variant of ComputePoints: the minimum is not applied
ComputePointsNoFloor(config, amount) ==
  IF config.mode = "donation"
  THEN IF amount <= 0 THEN 0 ELSE (amount \div config.per_amount) * config.multiplier
  ELSE IF config.mode = "ratio" THEN RoundHalf(amount)
  ELSE config.points

\* RewardService._compute_points; no configured type sets allow_override
ComputePoints(config, amount) ==
  IF config.mode = "donation"
  THEN IF amount <= 0 THEN 0
       ELSE LET computed == (amount \div config.per_amount) * config.multiplier
            IN  IF computed <= 0 /\ config.min_points > 0 THEN config.min_points
                ELSE IF config.min_points > 0 /\ computed < config.min_points
                THEN config.min_points
                ELSE computed
  ELSE IF config.mode = "ratio" THEN RoundHalf(amount)
  ELSE config.points

\* The usernames RewardsRepository.resolve_username may return.
ResolveUsername(profiles, username) ==
  IF ~Truthy(username) \/ Strip(username) = << >> THEN {None}
  ELSE LET normalized == Strip(username)
           resolutions == ResolveProfileByGameAlias(profiles, normalized)
       IN  IF resolutions = {} THEN {normalized}
           ELSE {OrElse(resolution.resolved_username, normalized) :
                   resolution \in resolutions}

\* the users document a filter on the username finds, or the one an upsert
\* creates
UserDoc(col, username) == IF username \in DOMAIN col THEN col[username] ELSE NewUserDoc

\* the users collection with the document of the username replaced or inserted
WithUserDoc(col, username, doc) ==
  [k \in DOMAIN col \cup {username} |-> IF k = username THEN doc ELSE col[k]]

\* find_one_and_update with $inc and upsert: one atomic storage operation
IncrementedUsers(col, username, points) ==
  WithUserDoc(col, username,
              [UserDoc(col, username) EXCEPT !.reward_points = @ + points])

\* variant of RunningTotal: the total is the points just awarded
RunningTotalOfAward(document, points) == points

\* running_total, read from the document the update returned
RunningTotal(document, points) == document.reward_points

\* no achievement code: the metadata of an award that is not a bonus
NoCode == ""

\* history_payload of increment_points; of the metadata the achievement code
\* of a bonus is represented, in the field code
PointsRow(username, point_type, points, amount, running_total, achievement) ==
  [username |-> username, event_type |-> "points", point_type |-> point_type,
   points |-> points, amount |-> amount, running_total |-> running_total,
   code |-> achievement]

\* RewardsRepository.increment_points: $inc with upsert, then insert_one of
\* the history row with the counter the update returned
IncrementPoints(store, username, points, point_type, amount, achievement) ==
  IF ~Truthy(username) \/ points = 0
  THEN [users |-> store.users, history |-> store.history, new_total |-> Nothing]
  ELSE LET incremented == IncrementedUsers(store.users, username, points)
           running_total == RunningTotal(incremented[username], points)
       IN  [users |-> incremented,
            history |-> Append(store.history,
                               PointsRow(username, point_type, points, amount,
                                         running_total, achievement)),
            new_total |-> Some(running_total)]

\* variant of AlreadyStored: the lookup before the write finds nothing
AlreadyStoredNever(col, username, achievement_code) == FALSE

\* existing and achievement_code in (existing.get("achievements") or [])
AlreadyStored(col, username, achievement_code) ==
  username \in DOMAIN col /\ achievement_code \in col[username].achievements

\* find_one_and_update with $addToSet and upsert: one atomic storage operation
AchievementAdded(col, username, achievement_code) ==
  WithUserDoc(col, username,
              [UserDoc(col, username) EXCEPT !.achievements = @ \cup {achievement_code}])

\* payload of append_achievement
AchievementRow(username, achievement_code, running_total) ==
  [username |-> username, event_type |-> "achievement", point_type |-> None,
   points |-> 0, amount |-> 0, running_total |-> running_total,
   code |-> achievement_code]

\* RewardsRepository.append_achievement: lookup, add-if-absent, then the
\* history row
AppendAchievement(store, username, achievement_code) ==
  IF ~Truthy(username) \/ achievement_code = NoCode THEN store
  ELSE IF AlreadyStored(store.users, username, achievement_code) THEN store
  ELSE LET added == AchievementAdded(store.users, username, achievement_code)
       IN  [store EXCEPT
              !.users = added,
              !.history = Append(@, AchievementRow(username, achievement_code,
                                                   added[username].reward_points))]

\* the rows get_user_point_breakdown groups under one point type
PointRows(history, username, point_type) ==
  SelectSeq(history, LAMBDA row : /\ row.username = username
                                  /\ row.event_type = "points"
                                  /\ row.point_type = point_type)

RECURSIVE SumPoints(_)
SumPoints(rows) == IF rows = << >> THEN 0 ELSE Head(rows).points + SumPoints(Tail(rows))

RECURSIVE SumAmount(_)
SumAmount(rows) == IF rows = << >> THEN 0 ELSE Head(rows).amount + SumAmount(Tail(rows))

\* the codes of ACHIEVEMENTS in the order of the table, with their bonus
ACHIEVEMENTS ==
  <<[code |-> "FIRST_DONATION", points_bonus |-> 10],
    [code |-> "BIG_DONOR", points_bonus |-> 25],
    [code |-> "MISSION_VETERAN", points_bonus |-> 30],
    [code |-> "CLAN_LEGEND", points_bonus |-> 50],
    [code |-> "SUPPORT_SPECIALIST", points_bonus |-> 15],
    [code |-> "DAILY_GRINDER", points_bonus |-> 10],
    [code |-> "RESOURCE_TYCOON", points_bonus |-> 40]>>

\* _evaluate_criteria on the criteria of one achievement, against the
\* snapshot of the user document and the history as _build_metrics read them
EvaluateCriteria(code, snapshot, history, username) ==
  LET Events(point_type) == Len(PointRows(history, username, point_type))
      Points(point_type) == SumPoints(PointRows(history, username, point_type))
      TotalAmount(point_type) == SumAmount(PointRows(history, username, point_type))
  IN  CASE code = "FIRST_DONATION" ->
             \/ snapshot.Oro >= 1
             \/ snapshot.Gem >= 1
             \/ Events(DONATION_ORO) >= 1
             \/ Events(DONATION_GEM) >= 1
        [] code = "BIG_DONOR" -> snapshot.Oro >= 50000 \/ snapshot.Gem >= 20000
        [] code = "MISSION_VETERAN" -> Events(MISSION_PARTICIPATION) >= 10
        [] code = "CLAN_LEGEND" -> snapshot.reward_points >= 1000
        [] code = "SUPPORT_SPECIALIST" ->
             Events(MISSION_SUPPORT) >= 5 \/ Points(MISSION_SUPPORT) >= 25
        [] code = "DAILY_GRINDER" -> Events(DAILY_LOGIN) >= 7
        [] code = "RESOURCE_TYCOON" ->
             /\ TotalAmount(DONATION_ORO) >= 100000
             /\ TotalAmount(DONATION_GEM) >= 5000
        [] OTHER -> FALSE

\* RewardsRepository.get_user: the document, or None
GetUser(col, username) ==
  IF Truthy(username) /\ username \in DOMAIN col THEN Some(col[username]) ELSE Nothing

\* what a check_achievements pass returns and did: the store, the codes
\* unlocked and the codes whose criteria were evaluated, in order
NoPass(store) == [store |-> store, unlocked |-> << >>, evaluated |-> << >>]

\* the metrics _build_metrics reads: the snapshot of the user document and
\* the history rows of the breakdown
BuildMetrics(store, username) ==
  [snapshot |-> store.users[username], history |-> store.history]

\* variant of MetricsOfPass: the metrics are read again for every entry
MetricsRefreshed(metrics, store, username) == BuildMetrics(store, username)

\* the metrics an entry of the table is evaluated against: those built before
\* the loop
MetricsOfPass(metrics, store, username) == metrics

\* variant of AlreadyHeld: no code counts as held
AlreadyHeldNever(code, metrics) == FALSE

\* if code in current: continue
AlreadyHeld(code, metrics) == code \in metrics.snapshot.achievements

\* the loop of check_achievements over the table from entry i on
RECURSIVE Sweep(_, _, _, _)
Sweep(pass, username, metrics, i) ==
  IF i > Len(ACHIEVEMENTS) THEN pass
  ELSE LET code == ACHIEVEMENTS[i].code
           bonus == ACHIEVEMENTS[i].points_bonus
           seen == MetricsOfPass(metrics, pass.store, username)
           appended == AppendAchievement(pass.store, username, code)
           granted == IncrementPoints(appended, username, bonus, ACHIEVEMENT_BONUS, 0,
                                      code)
           looked == [pass EXCEPT !.evaluated = Append(@, code)]
       IN  IF AlreadyHeld(code, seen) THEN Sweep(pass, username, metrics, i + 1)
           ELSE IF \/ ~EvaluateCriteria(code, seen.snapshot, seen.history, username)
                   \/ appended = pass.store
           THEN Sweep(looked, username, metrics, i + 1)
           ELSE Sweep([looked EXCEPT
                         !.store = [users |-> granted.users,
                                    history |-> granted.history],
                         !.unlocked = Append(@, code)],
                      username, metrics, i + 1)

\* RewardService.check_achievements; the snapshot is the document get_user
\* returns, and the pass returns at once when there is none
CheckAchievements(store, username) ==
  IF ~Truthy(username) \/ username \notin DOMAIN store.users THEN NoPass(store)
  ELSE Sweep(NoPass(store), username, BuildMetrics(store, username), 1)

\* variant of NothingToAward: zero points are passed on to the repository
NothingToAwardNever(points) == FALSE

\* if points == 0: return
NothingToAward(points) == points = 0

\* The outcomes of one award_points call: the users collection, the reward
\* history and the dict returned.
AwardPoints(profiles, col, history, username, point_type, amount) ==
  LET canonical_point_type == NormalizePointType(point_type)
      base == [NoAward EXCEPT !.input_username = username,
                              !.input_point_type = point_type,
                              !.input_amount = amount]
      store == [users |-> col, history |-> history]
      Untouched(result) == [users |-> col, history |-> history, result |-> result]
      Awarded(canonical_username) ==
        LET config == POINTS_CONFIG[canonical_point_type]
            normalized_amount == NormalizeAmount(amount, config.allow_negative)
            points == ComputePoints(config, normalized_amount)
            incremented == IncrementPoints(store, canonical_username, points,
                                           canonical_point_type, normalized_amount,
                                           NoCode)
            checked == CheckAchievements([users |-> incremented.users,
                                          history |-> incremented.history],
                                         canonical_username)
        IN  IF NothingToAward(points)
            THEN Untouched([base EXCEPT !.username = canonical_username])
            ELSE [users |-> checked.store.users,
                  history |-> checked.store.history,
                  result |-> [base EXCEPT !.username = canonical_username,
                                          !.awarded_points = points,
                                          !.total_points = incremented.new_total,
                                          !.point_type = canonical_point_type,
                                          !.new_achievements = checked.unlocked,
                                          !.evaluated = checked.evaluated,
                                          !.snapshot =
                                            GetUser(incremented.users,
                                                    canonical_username),
                                          !.metrics_rows =
                                            Len(incremented.history)]]
  IN  IF ~Truthy(canonical_point_type) THEN {Untouched(base)}
      ELSE {IF ~Truthy(canonical_username) THEN Untouched(base)
            ELSE Awarded(canonical_username) :
              canonical_username \in ResolveUsername(profiles, username)}

\* one award_points call
CallAwardPoints(username, point_type, amount) ==
  /\ award_runs < MaxAwards
  /\ \E outcome \in AwardPoints(player_profiles, users, rewards_history, username,
                                point_type, amount) :
       /\ users' = outcome.users
       /\ rewards_history' = outcome.history
       /\ award_result' = outcome.result
  /\ award_runs' = award_runs + 1
  /\ last_call' = "award"
  /\ UNCHANGED <<processed_ledger, donation_history, player_profiles, procvars,
                 resolved, link_result, missionvars, award_procs, points_call, adminvars, linkvars>>

\* the usernames, point types and amounts the callers pass to award_points
AwardUsernames == {Foo, Old, Blank}
AwardPointTypes ==
  {DONATION_ORO, <<" ", "o", "r", "o", " ">>, <<"S", "u", "p", "p", "o", "r", "t">>,
   ACHIEVEMENT_BONUS, PENALTY, <<"b", "o", "g", "u", "s">>, None}
AwardAmounts == {Nothing, Some(1), Some(1990)}

\* the users collection after process_ledger credited a donation of 2000 gold
\* by Foo
DonorUsers == Foo :> [NewUserDoc EXCEPT !.Oro = 2000]

InitRewards ==
  /\ users \in {EmptyUsers, DonorUsers}
  /\ processed_ledger = {}
  /\ donation_history = EmptyDonations
  /\ rewards_history = << >>
  /\ InitProcs
  /\ player_profiles \in LedgerProfiles

\* one check_achievements call without a snapshot
CallCheckAchievements(username) ==
  /\ award_runs < MaxAwards
  /\ LET checked == CheckAchievements([users |-> users, history |-> rewards_history],
                                      username)
     IN  /\ users' = checked.store.users
         /\ rewards_history' = checked.store.history
         /\ award_result' =
              [NoAward EXCEPT !.input_username = username,
                              !.username = username,
                              !.new_achievements = checked.unlocked,
                              !.evaluated = checked.evaluated,
                              !.snapshot = GetUser(users, username),
                              !.metrics_rows = Len(rewards_history)]
  /\ award_runs' = award_runs + 1
  /\ last_call' = "check"
  /\ UNCHANGED <<processed_ledger, donation_history, player_profiles, procvars,
                 resolved, link_result, missionvars, award_procs, points_call, adminvars, linkvars>>

\* the canonical usernames the callers pass to check_achievements
CheckUsernames == {Foo, Bar}

NextRewards ==
  \/ \E username \in AwardUsernames, point_type \in AwardPointTypes,
        amount \in AwardAmounts :
        CallAwardPoints(username, point_type, amount)
  \/ \E username \in CheckUsernames : CallCheckAchievements(username)

SpecRewards == InitRewards /\ [][NextRewards]_vars

(***************************************************************************)
(* award_points and check_achievements as coroutines: one action per       *)
(* storage operation awaited, so that the calls of several coroutines      *)
(* interleave between their awaits.  The profile lookup of                 *)
(* resolve_username is taken together with the entry of the call: no       *)
(* action of this specification writes a profile.                          *)
(***************************************************************************)
\* the first entry of the table from entry `from` on that the pass would try
\* to store: not held by the snapshot and qualifying on the metrics
RECURSIVE NextCandidate(_, _)
NextCandidate(proc, from) ==
  IF from > Len(ACHIEVEMENTS) THEN from
  ELSE LET metrics == [snapshot |-> proc.snapshot[1], history |-> proc.history]
           code == ACHIEVEMENTS[from].code
       IN  IF /\ ~AlreadyHeld(code, metrics)
              /\ EvaluateCriteria(code, metrics.snapshot, metrics.history, proc.username)
           THEN from
           ELSE NextCandidate(proc, from + 1)

\* the loop of check_achievements moves on to the next entry it has to store,
\* or the pass ends
Advance(proc, from) ==
  LET next == NextCandidate(proc, from)
  IN  [proc EXCEPT !.i = next,
                   !.pc = IF next > Len(ACHIEVEMENTS) THEN "done" ELSE "find"]

AwardFrame ==
  <<processed_ledger, donation_history, player_profiles, procvars, resolved,
    link_result, last_call, missionvars, award_result, award_runs, points_call,
    adminvars, linkvars>>

\* award_points is called: point type, username and points are computed
BeginAward(p, username, point_type, amount) ==
  /\ award_procs[p].pc = "idle"
  /\ LET canonical_point_type == NormalizePointType(point_type)
     IN  IF ~Truthy(canonical_point_type)
         THEN award_procs' = [award_procs EXCEPT ![p].pc = "done", ![p].op = "award"]
         ELSE \E canonical_username \in ResolveUsername(player_profiles, username) :
                LET config == POINTS_CONFIG[canonical_point_type]
                    normalized_amount == NormalizeAmount(amount, config.allow_negative)
                    points == ComputePoints(config, normalized_amount)
                IN  award_procs' =
                      [award_procs EXCEPT
                         ![p] = [IdleAward EXCEPT
                                   !.op = "award",
                                   !.username = canonical_username,
                                   !.point_type = canonical_point_type,
                                   !.amount = normalized_amount,
                                   !.points = points,
                                   !.pc = IF \/ ~Truthy(canonical_username)
                                             \/ NothingToAward(points)
                                          THEN "done" ELSE "increment"]]
  /\ UNCHANGED <<users, rewards_history, AwardFrame>>

\* check_achievements is called without a snapshot
BeginCheck(p, username) ==
  /\ award_procs[p].pc = "idle"
  /\ award_procs' =
       [award_procs EXCEPT
          ![p] = [IdleAward EXCEPT !.op = "check", !.username = username,
                                   !.pc = IF Truthy(username) THEN "get_user"
                                          ELSE "done"]]
  /\ UNCHANGED <<users, rewards_history, AwardFrame>>

\* increment_points: await find_one_and_update
IncrementStep(p) ==
  /\ award_procs[p].pc = "increment"
  /\ LET proc == award_procs[p]
         incremented == IncrementedUsers(users, proc.username, proc.points)
     IN  /\ users' = incremented
         /\ award_procs' =
              [award_procs EXCEPT
                 ![p].total = Some(RunningTotal(incremented[proc.username],
                                                proc.points)),
                 ![p].pc = "insert"]
  /\ UNCHANGED <<rewards_history, AwardFrame>>

\* increment_points: await insert_one of the history row; after the row of
\* the award the snapshot is read, after the row of a bonus the loop goes on
InsertStep(p) ==
  /\ award_procs[p].pc = "insert"
  /\ LET proc == award_procs[p]
     IN  /\ rewards_history' =
              Append(rewards_history,
                     PointsRow(proc.username, proc.point_type, proc.points,
                               proc.amount, proc.total[1], proc.bonus_for))
         /\ award_procs' =
              [award_procs EXCEPT
                 ![p] = IF proc.bonus_for = NoCode
                        THEN [proc EXCEPT !.pc = "get_user"]
                        ELSE Advance(proc, proc.i + 1)]
  /\ UNCHANGED <<users, AwardFrame>>

\* await get_user: the snapshot of the pass
GetUserStep(p) ==
  /\ award_procs[p].pc = "get_user"
  /\ LET snapshot == GetUser(users, award_procs[p].username)
     IN  award_procs' =
           [award_procs EXCEPT
              ![p].snapshot = snapshot,
              ![p].pc = IF snapshot = Nothing THEN "done" ELSE "metrics"]
  /\ UNCHANGED <<users, rewards_history, AwardFrame>>

\* await _build_metrics: the breakdown of the history is read, the loop starts
MetricsStep(p) ==
  /\ award_procs[p].pc = "metrics"
  /\ award_procs' =
       [award_procs EXCEPT
          ![p] = Advance([award_procs[p] EXCEPT !.history = rewards_history], 1)]
  /\ UNCHANGED <<users, rewards_history, AwardFrame>>

\* append_achievement: await find_one, the lookup before the write
FindStep(p) ==
  /\ award_procs[p].pc = "find"
  /\ LET proc == award_procs[p]
     IN  award_procs' =
           [award_procs EXCEPT
              ![p] = IF AlreadyStored(users, proc.username, ACHIEVEMENTS[proc.i].code)
                     THEN Advance(proc, proc.i + 1)
                     ELSE [proc EXCEPT !.pc = "add"]]
  /\ UNCHANGED <<users, rewards_history, AwardFrame>>

\* append_achievement: await find_one_and_update with $addToSet; the document
\* returned holds the code whether or not this write added it
AddStep(p) ==
  /\ award_procs[p].pc = "add"
  /\ LET proc == award_procs[p]
         added == AchievementAdded(users, proc.username, ACHIEVEMENTS[proc.i].code)
     IN  /\ users' = added
         /\ award_procs' =
              [award_procs EXCEPT
                 ![p].total = Some(added[proc.username].reward_points),
                 ![p].pc = "insert_achievement"]
  /\ UNCHANGED <<rewards_history, AwardFrame>>

\* append_achievement: await insert_one of the achievement row; back in the
\* loop the code is unlocked and its bonus is about to be granted
InsertAchievementStep(p) ==
  /\ award_procs[p].pc = "insert_achievement"
  /\ LET proc == award_procs[p]
         code == ACHIEVEMENTS[proc.i].code
         bonus == ACHIEVEMENTS[proc.i].points_bonus
         unlocked == [proc EXCEPT !.unlocked = Append(@, code)]
     IN  /\ rewards_history' =
              Append(rewards_history,
                     AchievementRow(proc.username, code, proc.total[1]))
         /\ award_procs' =
              [award_procs EXCEPT
                 ![p] = IF bonus = 0 THEN Advance(unlocked, proc.i + 1)
                        ELSE [unlocked EXCEPT !.pc = "increment",
                                              !.point_type = ACHIEVEMENT_BONUS,
                                              !.points = bonus,
                                              !.amount = 0,
                                              !.bonus_for = code]]
  /\ UNCHANGED <<users, AwardFrame>>

\* the arguments of the interleaved calls
InterleavedPointTypes == {DAILY_LOGIN, MISSION_SUPPORT}
InterleavedAmounts == {Some(50)}

NextAwards ==
  \E p \in AwardProcs :
    \/ \E point_type \in InterleavedPointTypes, amount \in InterleavedAmounts :
         BeginAward(p, Foo, point_type, amount)
    \/ BeginCheck(p, Foo)
    \/ IncrementStep(p)
    \/ InsertStep(p)
    \/ GetUserStep(p)
    \/ MetricsStep(p)
    \/ FindStep(p)
    \/ AddStep(p)
    \/ InsertAchievementStep(p)

InitAwards ==
  /\ users \in {EmptyUsers, DonorUsers}
  /\ processed_ledger = {}
  /\ donation_history = EmptyDonations
  /\ rewards_history = << >>
  /\ InitProcs
  /\ player_profiles = EmptyProfiles

SpecAwards == InitAwards /\ [][NextAwards]_vars

(***************************************************************************)
(* RewardService._compute_points as a function of its two arguments.       *)
(***************************************************************************)
\* the configurations _compute_points is applied to: the configured ones and
\* a donation configuration that sets no min_points
ComputeConfigs ==
  {POINTS_CONFIG[point_type] : point_type \in DOMAIN POINTS_CONFIG}
    \cup {DonationConfig(1, 0)}

\* one _compute_points call, the only one of the behaviour
ComputeCall(config, amount) ==
  /\ last_call = "none"
  /\ points_call' = [config |-> config, amount |-> amount,
                  points |-> ComputePoints(config, amount)]
  /\ last_call' = "compute"
  /\ UNCHANGED <<stores, player_profiles, procvars, resolved, link_result,
                 missionvars, award_result, award_runs, award_procs,
                 adminvars, linkvars>>

\* the amounts _compute_points is applied to: whole units of 1000 and amounts
\* just above, halfway to and just below the next unit, and their negatives
ComputeAmounts ==
  LET positive == {units * 1000 + offset :
                     units \in 0..MaxUnits, offset \in {0, 1, 500, 999}}
  IN  positive \cup {0 - amount : amount \in positive}

NextPoints ==
  \E config \in ComputeConfigs, amount \in ComputeAmounts :
    ComputeCall(config, amount)

SpecPoints == Init /\ [][NextPoints]_vars

(***************************************************************************)
(* Vocabulary of the properties.                                           *)
(***************************************************************************)
\* the coroutine p takes the step
Moves(p) == pc'[p] # pc[p] \/ idx'[p] # idx[p]

\* p is inside the loop body, at a record of its batch
AtRecord(p) == Running(p) /\ idx[p] <= Len(batch[p])

\* p has issued a balance increment for the record it is at
Applied(p) ==
  /\ AtRecord(p)
  /\ \/ pc[p] = "log"
     \/ pc[p] = "gems" /\ record(p).gold > 0
     \/ pc[p] = "mark" /\ HasDonation(record(p))

\* no usable username, or nothing to credit
Unusable(rec) ==
  \/ ~HasDonation(rec)
  \/ \A ident \in ResolveMemberIdentity(player_profiles, rec.playerUsername) :
        ~Truthy(ident.resolved_username)

\* the usernames resolution may attribute a record to
Attributed(rec) ==
  {ident.resolved_username :
     ident \in ResolveMemberIdentity(player_profiles, rec.playerUsername)}

\* the marked records the audit trail attributes to username
Credited(username) ==
  {rec \in FeedRecords :
     /\ rec.id \in processed_ledger
     /\ rec.id \in DOMAIN donation_history
     /\ donation_history[rec.id].username = username}

RECURSIVE SumGold(_)
SumGold(S) ==
  IF S = {} THEN 0 ELSE LET rec == CHOOSE r \in S : TRUE IN rec.gold + SumGold(S \ {rec})

RECURSIVE SumGems(_)
SumGems(S) ==
  IF S = {} THEN 0 ELSE LET rec == CHOOSE r \in S : TRUE IN rec.gems + SumGems(S \ {rec})

\* no run is inside a record, and every record a run was aborted in was ingested since
Settled ==
  \A p \in Procs :
    \/ pc[p] \in {"idle", "loop", "done"}
    \/ pc[p] = "aborted" /\ record(p).id \in processed_ledger

\* rows of the reward history holding donation-derived points of username
DonationRewardRows(username, point_type) ==
  {i \in 1..Len(rewards_history) :
     /\ rewards_history[i].username = username
     /\ rewards_history[i].event_type = "points"
     /\ rewards_history[i].point_type = point_type}

(***************************************************************************)
(* Ledger ingestion.                                                       *)
(***************************************************************************)
\* C1: once a record id is marked, a later run that meets the record again
\* changes no Economy Record, no donation audit entry and no marker: every
\* step a run takes at a DONATE record whose id is already marked leaves the
\* three collections as they are.
C1_ReingestIsNoOp ==
  [][\A p \in Procs :
       (/\ AtRecord(p)
        /\ IsDonate(record(p))
        /\ record(p).id \in processed_ledger
        /\ Moves(p))
       => UNCHANGED <<users, donation_history, processed_ledger>>]_vars

\* a second run is at a credited record that the first run marked
C1_Witness ==
  \E p \in Procs :
    /\ runs = 2
    /\ pc[p] = "has_processed"
    /\ HasDonation(record(p))
    /\ record(p).id \in processed_ledger
    /\ record(p).id \in DOMAIN donation_history

\* C2: two interleaved runs never both apply the balance increment of the
\* same record id.
C2_AppliedAtMostOnce ==
  \A p \in Procs : \A q \in Procs \ {p} :
    ~(Applied(p) /\ Applied(q) /\ record(p).id = record(q).id)

\* C3: whenever no run is inside a record and every record a run was aborted
\* in has been ingested since, each currency counter of an Economy Record is
\* the sum of the amounts of the marked records the audit trail attributes to
\* it, each counted once.
C3_CountedExactlyOnce ==
  Settled =>
    \A u \in DOMAIN users :
      /\ users[u].Oro = SumGold(Credited(u))
      /\ users[u].Gem = SumGems(Credited(u))

\* C4: a storage error at one record does not end the run: when a run is
\* over, every DONATE record of its batch other than the one the error hit
\* has its marker.
C4_FailureIsolated ==
  \A p \in Procs :
    pc[p] = "aborted" =>
      \A i \in 1..Len(batch[p]) :
        (i # idx[p] /\ IsDonate(batch[p][i])) => batch[p][i].id \in processed_ledger

\* C5: after a run that returned normally every DONATE record of its batch is
\* marked, also a record with zero amounts, without a username or with a
\* username that resolves to nothing; a record of these kinds has no audit
\* entry and no step taken at it changes an Economy Record.
C5_EveryDonateRecordMarked ==
  /\ [](\A p \in Procs :
          pc[p] = "done" =>
            \A i \in 1..Len(batch[p]) :
              IsDonate(batch[p][i]) => batch[p][i].id \in processed_ledger)
  /\ [](\A rec \in FeedRecords :
          (IsDonate(rec) /\ Unusable(rec)) => rec.id \notin DOMAIN donation_history)
  /\ [][\A p \in Procs :
          (AtRecord(p) /\ IsDonate(record(p)) /\ Unusable(record(p)) /\ Moves(p))
          => UNCHANGED <<users, donation_history>>]_vars

\* a completed run over the zero-amount, the nameless and the blank-name record
C5_Witness ==
  \E p \in Procs :
    /\ pc[p] = "done"
    /\ batch[p] = SubSeq(LedgerFeed, 5, 7)
    /\ {"r5", "r6", "r7"} \subseteq processed_ledger
    /\ users = EmptyUsers

\* C6: a record whose type is not DONATE never gets a marker or an audit
\* entry, and no step taken at it changes any collection, however often the
\* record is delivered.
C6_NonDonateSkipped ==
  /\ [](\A rec \in FeedRecords :
          ~IsDonate(rec) =>
            (rec.id \notin processed_ledger /\ rec.id \notin DOMAIN donation_history))
  /\ [][\A p \in Procs :
          (AtRecord(p) /\ ~IsDonate(record(p)) /\ Moves(p)) => UNCHANGED stores]_vars

\* the non-DONATE record was delivered to two runs, the second has passed it
C6_Witness ==
  /\ runs = 2
  /\ \A p \in Procs :
       /\ pc[p] = "done"
       /\ \E i \in 1..Len(batch[p]) : ~IsDonate(batch[p][i])
  /\ processed_ledger # {}

C8_AwardedOncePerDonation ==
  Settled =>
    \A u \in DOMAIN users :
      /\ Cardinality(DonationRewardRows(u, "DONATION_ORO"))
           = Cardinality({rec \in Credited(u) : rec.gold > 0})
      /\ Cardinality(DonationRewardRows(u, "DONATION_GEM"))
           = Cardinality({rec \in Credited(u) : rec.gems > 0})

(***************************************************************************)
(* Identity resolution.                                                    *)
(***************************************************************************)
\* the input of the last resolve_member_identity call, trimmed
Cleaned == Strip(OrElse(resolved.input_username, << >>))

\* no profile has name as its current username, letter case ignored
NotCurrent(name) ==
  \A t \in DOMAIN player_profiles :
    player_profiles[t].game_username = None
    \/ Lower(player_profiles[t].game_username) # Lower(name)

\* the history of profile t holds name, letter case ignored
InHistory(t, name) ==
  \E i \in 1..Len(player_profiles[t].game_username_history) :
    Lower(player_profiles[t].game_username_history[i].username) = Lower(name)

\* profile t has the input of the last call as a former username
AliasOf(t) ==
  /\ Cleaned # << >>
  /\ InHistory(t, Cleaned)
  /\ NotCurrent(Cleaned)

\* C9 as stated: a call with an alias of any profile, in any letter case and
\* with surrounding whitespace, the alias being no profile's current
\* username, returns that profile's current username with match = history.
C9_AliasResolvesToItsProfile ==
  \A t \in DOMAIN player_profiles :
    AliasOf(t) =>
      /\ resolved.resolved_username = player_profiles[t].game_username
      /\ resolved.match = "history"

\* C9 as amended: the same, for an alias that the history of no other
\* profile holds.
C9_UniqueAliasResolvesToItsProfile ==
  \A t \in DOMAIN player_profiles :
    (AliasOf(t) /\ \A u \in DOMAIN player_profiles \ {t} : ~InHistory(u, Cleaned)) =>
      /\ resolved.resolved_username = player_profiles[t].game_username
      /\ resolved.match = "history"
      /\ resolved.profile = t

\* the padded, differently cased former username of a renamed profile was resolved
C9_Witness ==
  \E t \in DOMAIN player_profiles :
    /\ resolved.input_username = OldPadded
    /\ player_profiles[t].game_username = Bar
    /\ AliasOf(t)
    /\ resolved.resolved_username = Bar

\* C10: a call whose trimmed input is empty returns no resolved username and
\* no match; a call whose trimmed input is no profile's current username and
\* in no profile's history returns the trimmed input itself, no match and no
\* chat id, chat username or profile.
C10_NoMatchReturnsInput ==
  /\ Cleaned = << >> =>
       /\ resolved.resolved_username = None
       /\ resolved.match = "None"
  /\ (/\ Cleaned # << >>
      /\ NotCurrent(Cleaned)
      /\ \A t \in DOMAIN player_profiles : ~InHistory(t, Cleaned)) =>
       /\ resolved.resolved_username = Cleaned
       /\ resolved.match = "None"
       /\ resolved.telegram_id = NoTelegramId
       /\ resolved.telegram_username = None
       /\ resolved.profile = NoTelegramId

\* a padded name that matches none of two linked profiles was resolved
C10_Witness ==
  /\ resolved.input_username = OldPadded
  /\ Cardinality(DOMAIN player_profiles) = 2
  /\ resolved.match = "None"
  /\ resolved.resolved_username = Strip(OldPadded)

\* C11: resolve_member_identity returns an identity for every input; when the
\* profile lookup raises, the identity is that of a no-match (resolved username
\* = trimmed input, no match, no chat id, chat username or profile); no call
\* changes the profile store, the Economy Records, the ledger markers, the
\* donation audit trail or the reward history.
C11_ResolveNeverWrites ==
  /\ [](\A username \in LookupInputs :
          ResolveMemberIdentity(player_profiles, username) # {})
  /\ [](last_call = "resolve_failed" =>
          /\ resolved.resolved_username = Cleaned
          /\ resolved.original_username = Cleaned
          /\ resolved.match = "None"
          /\ resolved.telegram_id = NoTelegramId
          /\ resolved.telegram_username = None
          /\ resolved.profile = NoTelegramId)
  /\ [][last_call' \in {"resolve", "resolve_failed"} =>
          UNCHANGED <<player_profiles, stores>>]_vars

\* the lookup of a former username of a linked profile raised while Economy
\* Records existed
C11_Witness ==
  /\ last_call = "resolve_failed"
  /\ resolved.input_username = OldPadded
  /\ \E t \in DOMAIN player_profiles : InHistory(t, Cleaned)
  /\ users = OldAndBar

(***************************************************************************)
(* Profile linking.                                                        *)
(***************************************************************************)
\* a profile with another chat id has name as its current username, letter
\* case ignored
TakenByOther(telegram_id, name) ==
  \E u \in DOMAIN player_profiles \ {telegram_id} :
    /\ player_profiles[u].game_username # None
    /\ Lower(player_profiles[u].game_username) = Lower(name)

\* a profile with another chat id stores the game account id
BoundToOther(telegram_id, wolvesville_id) ==
  /\ wolvesville_id # NoWolvesvilleId
  /\ \E u \in DOMAIN player_profiles \ {telegram_id} :
       player_profiles[u].wolvesville_id = wolvesville_id

\* C12 as stated: a link_player_profile call whose game username is, letter
\* case ignored, the current username of a profile with another chat id, or
\* whose game account id is stored on a profile with another chat id, returns
\* a conflict and leaves the profile store and the Economy Records as they
\* are.
C12_AnyClashIsConflict ==
  \A t \in TelegramIds, g \in GameNames, n \in TelegramNames,
     w \in WolvesvilleIds \cup {NoWolvesvilleId} :
    (TakenByOther(t, g) \/ BoundToOther(t, w)) =>
      \A outcome \in LinkPlayerProfile(player_profiles, users, t, g, n, w) :
        /\ outcome.result.status = "conflict"
        /\ outcome.profiles = player_profiles
        /\ outcome.users = users

\* C12 as amended: the same for a game username that is not empty after
\* trimming; a call whose game username is empty after trimming ends in an
\* error, not a conflict, and writes nothing either; no step that ends in a
\* conflict or an error writes to the profile store or the Economy Records.
C12_ConflictWritesNothing ==
  /\ [](\A t \in TelegramIds, g \in GameNames, n \in TelegramNames,
           w \in WolvesvilleIds \cup {NoWolvesvilleId} :
          \A outcome \in LinkPlayerProfile(player_profiles, users, t, g, n, w) :
            /\ (Strip(g) # << >> /\ (TakenByOther(t, g) \/ BoundToOther(t, w))) =>
                 /\ outcome.result.status = "conflict"
                 /\ outcome.profiles = player_profiles
                 /\ outcome.users = users
            /\ Strip(g) = << >> =>
                 /\ outcome.result.status = "error"
                 /\ outcome.profiles = player_profiles
                 /\ outcome.users = users)
  /\ [][link_result'.status \in {"conflict", "error"} =>
          UNCHANGED <<player_profiles, users>>]_vars

\* a link call ended in a conflict over the game account id while Economy
\* Records existed
C12_Witness ==
  /\ last_call = "link"
  /\ link_result.status = "conflict"
  /\ link_result.reason = "wolvesville_id"
  /\ users = OldAndBar

\* C13: in every state reached by link_player_profile and
\* sync_telegram_metadata calls run one after another, no two profile
\* documents have current game usernames that are equal when lowercased
\* (documents without a game username aside), and no two profile documents
\* carry the same chat id.
C13_ProfilesUnique ==
  \A t \in DOMAIN player_profiles : \A u \in DOMAIN player_profiles \ {t} :
    /\ (/\ player_profiles[t].game_username # None
        /\ player_profiles[u].game_username # None) =>
         Lower(player_profiles[t].game_username) # Lower(player_profiles[u].game_username)
    /\ (/\ player_profiles[t].game_username_lower # None
        /\ player_profiles[u].game_username_lower # None) =>
         player_profiles[t].game_username_lower # player_profiles[u].game_username_lower
    /\ player_profiles[t].telegram_id # player_profiles[u].telegram_id

\* two linked profiles exist and a link call for a username that one of them
\* owns has just been refused
C13_Witness ==
  /\ Cardinality(DOMAIN player_profiles) = 2
  /\ \A t \in DOMAIN player_profiles : player_profiles[t].game_username # None
  /\ link_result.status = "conflict"
  /\ link_result.reason = "game_username"

\* the usernames the history of a profile document holds
HistoryNames(profile) ==
  {profile.game_username_history[i].username :
     i \in 1..Len(profile.game_username_history)}

\* C14: the current game username of a profile, when it has one, is among the
\* entries of its history; a step never removes a profile and only appends to
\* a history, so every username that was once current stays in it; a step that
\* replaces the current username A of a profile by B leaves both A and B in the
\* history, B as the current username, and reports the change with A as the
\* previous username.
C14_HistoryRetained ==
  /\ [](\A t \in DOMAIN player_profiles :
          player_profiles[t].game_username # None =>
            player_profiles[t].game_username \in HistoryNames(player_profiles[t]))
  /\ [][\A t \in DOMAIN player_profiles :
          /\ t \in DOMAIN player_profiles'
          /\ Len(player_profiles'[t].game_username_history)
               >= Len(player_profiles[t].game_username_history)
          /\ SubSeq(player_profiles'[t].game_username_history, 1,
                    Len(player_profiles[t].game_username_history))
               = player_profiles[t].game_username_history
          /\ (/\ player_profiles[t].game_username # None
              /\ player_profiles'[t].game_username # player_profiles[t].game_username) =>
               /\ {player_profiles[t].game_username, player_profiles'[t].game_username}
                    \subseteq HistoryNames(player_profiles'[t])
               /\ link_result'.game_username_changed
               /\ link_result'.previous_game_username = player_profiles[t].game_username]_vars

\* a profile was renamed from Old to Bar
C14_Witness ==
  \E t \in DOMAIN player_profiles :
    /\ player_profiles[t].game_username = Bar
    /\ HistoryNames(player_profiles[t]) = {Old, Bar}
    /\ link_result.game_username_changed
    /\ link_result.previous_game_username = Old

\* the step renames the profile of chat id t from username a to username b
Renames(t, a, b) ==
  /\ t \in DOMAIN player_profiles
  /\ player_profiles[t].game_username = a
  /\ player_profiles'[t].game_username = b
  /\ a # None
  /\ a # b

\* C15: when a link_player_profile step renames a profile from A to B while
\* Economy Records exist for both, afterwards the record keyed A is gone, the
\* record keyed B holds for each currency and for the reward points the sum of
\* the two former values and as achievements the union of the two former sets,
\* every other record is as it was, and the call reports a merge.
C15_MergeOnRename ==
  [][\A t \in TelegramIds : \A a \in DOMAIN users : \A b \in DOMAIN users :
       Renames(t, a, b) =>
         /\ DOMAIN users' = DOMAIN users \ {a}
         /\ users'[b].Oro = users[a].Oro + users[b].Oro
         /\ users'[b].Gem = users[a].Gem + users[b].Gem
         /\ users'[b].reward_points = users[a].reward_points + users[b].reward_points
         /\ users'[b].achievements = users[a].achievements \cup users[b].achievements
         /\ \A u \in DOMAIN users \ {a, b} : users'[u] = users[u]
         /\ link_result'.migrate_result = "merged"]_vars

\* the records of Old (gold 100, points 5) and Bar (gold 10, points 2) were
\* merged into one record keyed Bar with gold 110 and points 7
C15_Witness ==
  /\ link_result.migrate_result = "merged"
  /\ link_result.previous_game_username = Old
  /\ DOMAIN users = {Bar}
  /\ users[Bar].Oro = 110
  /\ users[Bar].reward_points = 7
  /\ users[Bar].achievements = {"FIRST_DONATION", "DAILY_GRINDER"}

(***************************************************************************)
(* Missions.                                                               *)
(***************************************************************************)
\* the balance a mission of the given type is paid from; an absent record or
\* counter reads as 0
MissionBalance(col, username, mission_type) ==
  IF username \notin DOMAIN col THEN 0
  ELSE IF NormalizeCurrency(mission_type) = "Oro" THEN col[username].Oro
  ELSE IF NormalizeCurrency(mission_type) = "Gem" THEN col[username].Gem
  ELSE 0

\* the cost table of the specification, on the canonical currency
TieredCost(currency, headcount) ==
  IF currency = "Oro" THEN 500
  ELSE IF headcount < 5 THEN 0
  ELSE IF headcount <= 7 THEN 150
  ELSE 140

\* C16: whenever a mission run has gone through (automatic or manual), the
\* cost per participant it computed and logged is the tiered cost of the
\* mission currency at the number of resolved participants, whatever the
\* number of raw names: Gold 500, Gem 0 below 5, 150 for 5 to 7, 140 above 7.
C16_CostFromResolvedCount ==
  mission_run.outcome = "processed" =>
    /\ Len(mission_run.resolved) >= 1
    /\ mission_run.cost = TieredCost(NormalizeCurrency(mission_run.mission_type),
                                     Len(mission_run.resolved))
    /\ missions_history[Len(missions_history)].cost_per_participant = mission_run.cost

\* a Gem mission with 5 raw names of which 3 resolve was costed on 3: cost 0
C16_Witness ==
  /\ mission_run.outcome = "processed"
  /\ mission_run.mission_type = GemCurrency
  /\ Len(mission_run.raw) = 5
  /\ Len(mission_run.resolved) = 3
  /\ mission_run.cost = 0

\* the rows the automatic processing logged for a mission id
AutoRows(mission_id) ==
  {i \in DOMAIN missions_history :
     /\ missions_history[i].source = "active_mission"
     /\ missions_history[i].mission_id = mission_id}

\* C17: a process_active_mission_auto run that observes an active mission
\* whose marker is already written changes no balance, appends no mission
\* history row and leaves the markers as they are; so the automatic
\* processing logs, and debits for, each mission id at most once.
C17_AutoRunIdempotent ==
  /\ [][(/\ last_call' = "mission_auto"
          /\ mission_runs' = mission_runs + 1
          /\ mission_run'.mission_id \in processed_active_missions)
        => /\ UNCHANGED <<users, missions_history, processed_active_missions>>
           /\ mission_run'.outcome = "already_processed"]_vars
  /\ [](\A quest \in ActiveQuests : Cardinality(AutoRows(quest.id)) <= 1)
  /\ [](\A quest \in ActiveQuests :
          quest.id \in processed_active_missions <=> AutoRows(quest.id) # {})

\* a second poll observed the Gold mission m1 again after it had been
\* processed and debited
C17_Witness ==
  /\ mission_run.op = "auto"
  /\ mission_run.outcome = "already_processed"
  /\ mission_run.mission_id = "m1"
  /\ mission_runs = 2
  /\ Foo \in DOMAIN users
  /\ users[Foo].Oro = 0 - 500

\* the mission id was handled before: its marker is written or a mission
\* history row carries it
HandledBefore(mission_id) ==
  \/ mission_id \in processed_active_missions
  \/ \E i \in DOMAIN missions_history : missions_history[i].mission_id = mission_id

\* C18: a process_mission call with a non-null mission id that was handled
\* before (by an earlier process_mission call or by the automatic
\* processing) changes no balance.
C18_ManualMarkerDiscipline ==
  [][(/\ last_call' = "mission_manual"
      /\ mission_runs' = mission_runs + 1
      /\ mission_run'.mission_id # NoMissionId
      /\ HandledBefore(mission_run'.mission_id))
    => users' = users]_vars

\* C19: a mission run debits no record by more than the cost per participant.
C19_DebitedOncePerMission ==
  [][mission_runs' = mission_runs + 1 =>
       \A username \in DOMAIN users' :
         MissionBalance(users', username, mission_run'.mission_type)
           >= MissionBalance(users, username, mission_run'.mission_type)
                - mission_run'.cost]_vars

(***************************************************************************)
(* Rewards.                                                                *)
(***************************************************************************)
\* the point type is neither a canonical type nor an entry of the alias table
UnknownPointType(point_type) ==
  /\ (point_type = None \/ Upper(Strip(point_type)) \notin DOMAIN POINTS_CONFIG)
  /\ (point_type = None \/ Lower(Strip(point_type)) \notin DOMAIN POINT_TYPE_ALIASES)

\* the points the configuration yields for a known point type and an amount
PointsFor(point_type, amount) ==
  LET config == POINTS_CONFIG[NormalizePointType(point_type)]
  IN  ComputePoints(config, NormalizeAmount(amount, config.allow_negative))

\* the award is one without effect: unknown point type, or zero points
ZeroEffect(point_type, amount) ==
  UnknownPointType(point_type) \/ PointsFor(point_type, amount) = 0

\* C20: an award_points call whose point type is unknown or whose computed
\* points are 0 returns awarded_points = 0, changes no users document (no
\* counter, no achievement) and appends no reward history row.
C20_ZeroEffectAward ==
  [][(/\ last_call' = "award"
      /\ award_runs' = award_runs + 1
      /\ ZeroEffect(award_result'.input_point_type, award_result'.input_amount))
    => /\ award_result'.awarded_points = 0
       /\ award_result'.new_achievements = << >>
       /\ UNCHANGED <<users, rewards_history>>]_vars

\* a zero-point award (a support award of amount 1, half a point rounded to
\* 0) for Foo, whose record qualifies for FIRST_DONATION, left the record
\* and the empty history as they were
C20_Witness ==
  /\ last_call = "award"
  /\ award_result.input_username = Foo
  /\ NormalizePointType(award_result.input_point_type) = MISSION_SUPPORT
  /\ award_result.input_amount = Some(1)
  /\ award_result.username = Foo
  /\ award_result.awarded_points = 0
  /\ users = DonorUsers
  /\ rewards_history = << >>

\* the larger of two integers
Larger(a, b) == IF a >= b THEN a ELSE b

\* C21: for a donation configuration and every integer amount,
\* _compute_points returns 0 when the amount is not positive and otherwise the
\* larger of (amount integer-divided by per_amount, times the multiplier) and
\* min_points, where a configuration without a minimum has min_points 0.
C21_DonationTiers ==
  points_call.config.mode = "donation" =>
    points_call.points =
      IF points_call.amount <= 0 THEN 0
      ELSE Larger((points_call.amount \div points_call.config.per_amount)
                    * points_call.config.multiplier,
                  points_call.config.min_points)

\* an amount of 1 gave the minimum of 1 under DONATION_ORO (unit 1000,
\* weight 1)
C21_Witness ==
  /\ last_call = "compute"
  /\ points_call.config = POINTS_CONFIG[DONATION_ORO]
  /\ points_call.amount = 1
  /\ points_call.points = 1

\* the rows of the reward history of one event type that carry an
\* achievement code for a username
CodeRows(event_type, username, code) ==
  {i \in DOMAIN rewards_history :
     /\ rewards_history[i].event_type = event_type
     /\ rewards_history[i].username = username
     /\ rewards_history[i].code = code}

AchievementCodes == {ACHIEVEMENTS[i].code : i \in DOMAIN ACHIEVEMENTS}

\* C23: over award_points and check_achievements calls run one after
\* another, every username has for every achievement code at most one
\* achievement row and at most one bonus row in the reward history, a code
\* with a row is in the user's achievement set, and a pass evaluates no code
\* its snapshot already holds.
C23_AchievementOnce ==
  /\ \A username \in DOMAIN users : \A code \in AchievementCodes :
       /\ Cardinality(CodeRows("achievement", username, code)) <= 1
       /\ Cardinality(CodeRows("points", username, code)) <= 1
       /\ CodeRows("achievement", username, code) # {}
            => code \in users[username].achievements
  /\ award_result.snapshot # Nothing =>
       \A i \in DOMAIN award_result.evaluated :
         award_result.evaluated[i] \notin award_result.snapshot[1].achievements

\* a second pass for Foo found FIRST_DONATION held, skipped it and evaluated
\* the other entries; the history holds one row and one bonus for it
C23_Witness ==
  /\ award_runs = 2
  /\ award_result.username = Foo
  /\ award_result.snapshot # Nothing
  /\ "FIRST_DONATION" \in award_result.snapshot[1].achievements
  /\ award_result.evaluated # << >>
  /\ Cardinality(CodeRows("achievement", Foo, "FIRST_DONATION")) = 1
  /\ Cardinality(CodeRows("points", Foo, "FIRST_DONATION")) = 1

\* the position of a code in the achievement table
TableIndex(code) == CHOOSE i \in DOMAIN ACHIEVEMENTS : ACHIEVEMENTS[i].code = code

\* the rows a call appended to the reward history
NewRows == SubSeq(rewards_history', Len(rewards_history) + 1, Len(rewards_history'))

\* C30: a check_achievements pass evaluates the entries of the table in
\* table order, each at most once; every code it unlocks qualifies on the
\* metrics read before the loop (the snapshot and the history rows of that
\* moment); each unlock appends one achievement row and one bonus row of
\* point type ACHIEVEMENT_BONUS, and the call appends no other row than the
\* row of the award itself.
C30_OneSweepOnSnapshot ==
  /\ [](/\ \A i \in DOMAIN award_result.evaluated : \A j \in DOMAIN award_result.evaluated :
            i < j => TableIndex(award_result.evaluated[i])
                       < TableIndex(award_result.evaluated[j])
        /\ \A i \in DOMAIN award_result.new_achievements :
            /\ award_result.snapshot # Nothing
            /\ EvaluateCriteria(award_result.new_achievements[i],
                                award_result.snapshot[1],
                                SubSeq(rewards_history, 1, award_result.metrics_rows),
                                award_result.username))
  /\ [][award_runs' = award_runs + 1 =>
         /\ Len(NewRows) = 2 * Len(award_result'.new_achievements)
                             + (IF award_result'.awarded_points # 0 THEN 1 ELSE 0)
         /\ \A i \in DOMAIN NewRows :
              NewRows[i].code # NoCode /\ NewRows[i].event_type = "points"
                => /\ NewRows[i].point_type = ACHIEVEMENT_BONUS
                   /\ NewRows[i].code \in
                        {award_result'.new_achievements[j] :
                           j \in DOMAIN award_result'.new_achievements}]_vars

\* an award of 995 support points for Foo unlocked FIRST_DONATION and
\* SUPPORT_SPECIALIST; their bonuses lifted the counter to 1020, past the 1000
\* of CLAN_LEGEND, which the pass evaluated on the snapshot and left locked
C30_Witness ==
  /\ last_call = "award"
  /\ award_result.username = Foo
  /\ award_result.awarded_points = 995
  /\ award_result.new_achievements = <<"FIRST_DONATION", "SUPPORT_SPECIALIST">>
  /\ \E i \in DOMAIN award_result.evaluated : award_result.evaluated[i] = "CLAN_LEGEND"
  /\ users[Foo].reward_points = 1020
  /\ "CLAN_LEGEND" \notin users[Foo].achievements

\* the points rows of a username in the reward history
PointsRowsOf(username) ==
  SelectSeq(rewards_history,
            LAMBDA row : row.username = username /\ row.event_type = "points")

\* the coroutines that incremented the counter of a username and have not
\* yet inserted the history row
Unlogged(username) ==
  {p \in AwardProcs : award_procs[p].pc = "insert" /\ award_procs[p].username = username}

RECURSIVE SumUnlogged(_)
SumUnlogged(procs) ==
  IF procs = {} THEN 0
  ELSE LET p == CHOOSE q \in procs : TRUE
       IN  award_procs[p].points + SumUnlogged(procs \ {p})

C24_UnlockOnceUnderInterleaving ==
  \A username \in DOMAIN users : \A code \in AchievementCodes :
    /\ Cardinality(CodeRows("achievement", username, code)) <= 1
    /\ Cardinality(CodeRows("points", username, code)) <= 1

(***************************************************************************)
(* The balance dialog of the administrators and the departure check.       *)
(* BalancesHandlers.modify_enter_amount writes the amount an administrator *)
(* typed for the player and the currency chosen in the steps before;       *)
(* MaintenanceService.check_clan_departures compares the users collection  *)
(* with the member list of the clan.  Each call runs to completion.        *)
(***************************************************************************)
\* balance edits and departure checks in one behaviour
MaxAdminRuns == 2

IsDigit(c) == c \in {"0", "1", "2", "3", "4", "5", "6", "7", "8", "9"}

DigitValue(c) ==
  CASE c = "0" -> 0 [] c = "1" -> 1 [] c = "2" -> 2 [] c = "3" -> 3 [] c = "4" -> 4
    [] c = "5" -> 5 [] c = "6" -> 6 [] c = "7" -> 7 [] c = "8" -> 8 [] c = "9" -> 9

RECURSIVE DigitsValue(_)
DigitsValue(s) ==
  IF s = << >> THEN 0
  ELSE 10 * DigitsValue(SubSeq(s, 1, Len(s) - 1)) + DigitValue(s[Len(s)])

\* int(amount_text): surrounding blanks, an optional sign, decimal digits;
\* Nothing stands for ValueError
ParseInt(text) ==
  LET t == Strip(text)
      signed == t # << >> /\ t[1] \in {"-", "+"}
      digits == IF signed THEN Tail(t) ELSE t
  IN  IF digits = << >> \/ \E i \in 1..Len(digits) : ~IsDigit(digits[i])
      THEN Nothing
      ELSE IF signed /\ t[1] = "-"
           THEN Some(0 - DigitsValue(digits))
           ELSE Some(DigitsValue(digits))

\* MongoManager.set_user_currency: $set with upsert
SetUserCurrency(col, username, currency, value) ==
  LET doc == IF username \in DOMAIN col THEN col[username] ELSE NewUserDoc
      new == IF NormalizeCurrency(currency) = "Oro"
             THEN [doc EXCEPT !.Oro = value]
             ELSE IF NormalizeCurrency(currency) = "Gem"
                  THEN [doc EXCEPT !.Gem = value]
                  ELSE doc
  IN  [k \in DOMAIN col \cup {username} |-> IF k = username THEN new ELSE col[k]]

\* the new_amount modify_enter_amount accepts, Nothing when it answers with an error
AcceptedAmount(text) ==
  LET amount_text == Strip(text)
      new_amount == ParseInt(amount_text)
  IN  IF amount_text = << >> \/ new_amount = Nothing THEN Nothing
      ELSE IF new_amount[1] < 0 - 999999 \/ new_amount[1] > 999999 THEN Nothing
      ELSE new_amount

adminframe ==
  <<processed_ledger, donation_history, rewards_history, player_profiles, procvars,
    resolved, link_result, last_call, missionvars, rewardvars, linkvars>>

\* modify_enter_amount with the chosen_player and chosen_db_key of the dialog
ModifyEnterAmount(username, db_key, text) ==
  /\ admin_runs < MaxAdminRuns
  /\ admin_runs' = admin_runs + 1
  /\ LET new_amount == AcceptedAmount(text)
     IN  /\ users' = IF new_amount = Nothing THEN users
                     ELSE SetUserCurrency(users, username, db_key, new_amount[1])
         /\ admin_call' = [op |-> IF new_amount = Nothing THEN "modify_rejected"
                                  ELSE "modify",
                           username |-> username, db_key |-> db_key,
                           value |-> new_amount, members |-> {}]
  /\ UNCHANGED adminframe

\* the set comprehension over the members response
CurrentUsernames(members) == {m.username : m \in {n \in members : Truthy(n.username)}}

\* the users check_clan_departures passes to remove_user_by_username
Departed(col, current_usernames) ==
  {username \in DOMAIN col :
     /\ Truthy(username)
     /\ username \notin current_usernames
     /\ ~(col[username].Oro < 0 \/ col[username].Gem < 0)}

\* check_clan_departures: the response of GET /clans/{id}/members, then one
\* delete_one per departed user without debt
CheckClanDepartures(status, members) ==
  /\ admin_runs < MaxAdminRuns
  /\ admin_runs' = admin_runs + 1
  /\ users' = IF status # 200 THEN users
              ELSE LET gone == Departed(users, CurrentUsernames(members))
                   IN  [k \in DOMAIN users \ gone |-> users[k]]
  /\ admin_call' = [op |-> IF status # 200 THEN "departures_failed" ELSE "departures",
                    username |-> None, db_key |-> << >>, value |-> Nothing,
                    members |-> members]
  /\ UNCHANGED adminframe

\* texts an administrator may type
AmountTexts ==
  {<<"5", "0", "0">>, <<" ", "-", "2", "0", "0">>, <<"0">>, <<"a", "b">>, << >>,
   <<"1", "0", "0", "0", "0", "0", "0">>}

\* members the clan may have: the player w1 under the name the record was
\* keyed by or under a later name, another player, and an entry without a name
MemberPool ==
  {[playerId |-> "w1", username |-> Old], [playerId |-> "w1", username |-> Bar],
   [playerId |-> "w2", username |-> Foo], [playerId |-> "w3", username |-> None]}

MemberLists ==
  {members \in SUBSET MemberPool :
     \A m, n \in members : m.playerId = n.playerId => m = n}

\* Economy Records of a player in debt
OldInDebt == [u \in {Old} |-> [OldRecord EXCEPT !.Oro = 0 - 200]]

AdminUsers == {OnlyOld, OldAndBar, OldInDebt}

\* the profile store left by linking chat id 1 to Old
LinkedOldProfiles ==
  {first.profiles : first \in LinkPlayerProfile(EmptyProfiles, EmptyUsers, 1, Old, Tg, "w1")}

InitAdmin ==
  /\ users \in AdminUsers
  /\ processed_ledger = {}
  /\ donation_history = EmptyDonations
  /\ rewards_history = << >>
  /\ InitProcs
  /\ player_profiles \in {EmptyProfiles} \cup LinkedOldProfiles

NextAdmin ==
  \/ \E username \in DOMAIN users, db_key \in {OroCurrency, GemCurrency},
        text \in AmountTexts : ModifyEnterAmount(username, db_key, text)
  \/ \E status \in {200, 500}, members \in MemberLists :
        CheckClanDepartures(status, members)

SpecAdmin == InitAdmin /\ [][NextAdmin]_vars

\* the counter of a record, 0 for a record that does not exist
Counter(col, username, field) == IF username \in DOMAIN col THEN col[username][field] ELSE 0

\* C25: every change the balance dialog makes to a currency counter of an
\* Economy Record is an additive increment by the amount it was given: no
\* operation sets a currency counter to an absolute value.
C25_OnlyAdditiveIncrements ==
  [][(admin_runs' # admin_runs /\ admin_call'.op = "modify") =>
       \A username \in DOMAIN users' : \A field \in {"Oro", "Gem"} :
         Counter(users', username, field) - Counter(users, username, field)
           \in {0, admin_call'.value[1]}]_vars

\* the player a member entry stands for owns the record keyed username: the
\* entry carries that name, or the profile of the player carries it
OwnsRecord(profiles, member, username) ==
  \/ member.username = username
  \/ \E t \in DOMAIN profiles :
       /\ profiles[t].wolvesville_id = member.playerId
       /\ (profiles[t].game_username = username \/ username \in HistoryNames(profiles[t]))

\* C26: check_clan_departures deletes an Economy Record only when no member
\* of the clan owns it, under the current or under a former username, and
\* none of its currency counters is negative.
C26_DeletedOnlyAfterDepartureWithoutDebt ==
  [][(admin_runs' # admin_runs /\ admin_call'.op = "departures") =>
       \A username \in DOMAIN users \ DOMAIN users' :
         /\ ~\E member \in admin_call'.members :
               OwnsRecord(player_profiles, member, username)
         /\ users[username].Oro >= 0
         /\ users[username].Gem >= 0]_vars

(***************************************************************************)
(* Order of the writes of process_ledger, precedence of the lookups and    *)
(* attribution of donations made under a former username.                  *)
(***************************************************************************)
\* the records of the feed that resolve to a username and carry an amount
Usable == {rec \in FeedRecords : IsDonate(rec) /\ ~Unusable(rec)}

\* the increments of rec are in the record its audit entry names
Incremented(col, history, rec) ==
  /\ history[rec.id].username \in DOMAIN col
  /\ col[history[rec.id].username].Oro >= rec.gold
  /\ col[history[rec.id].username].Gem >= rec.gems

\* C27: for a resolved donation record with a positive amount the balance
\* increments come first, then the audit entry, then the marker: the marker
\* is written in a state that holds the audit entry, the audit entry in a
\* state that holds the increments, and in every state a marked record has
\* its audit entry and its increments.
C27_IncrementsThenAuditThenMarker ==
  /\ [](\A rec \in Usable :
          rec.id \in processed_ledger =>
            /\ rec.id \in DOMAIN donation_history
            /\ donation_history[rec.id].gold = rec.gold
            /\ donation_history[rec.id].gems = rec.gems
            /\ Incremented(users, donation_history, rec))
  /\ [][\A rec \in Usable :
          /\ rec.id \in processed_ledger' \ processed_ledger =>
               (rec.id \in DOMAIN donation_history /\ UNCHANGED <<users, donation_history>>)
          /\ rec.id \in DOMAIN donation_history' \ DOMAIN donation_history =>
               (/\ rec.id \notin processed_ledger'
                /\ users' = users
                /\ Incremented(users, donation_history', rec))]_vars

\* the donation of foo in both currencies is marked while another run is
\* between its increment and its audit entry
C27_Witness ==
  /\ "r2" \in processed_ledger
  /\ donation_history["r2"].gems = 100
  /\ users[foo].Oro >= 500
  /\ \E p \in Procs : pc[p] = "log"

\* C28: when the trimmed input is, letter case ignored, the current username
\* of a profile, the call returns that profile and its current username with
\* match = current, whatever the histories hold; match = history is returned
\* only for a name that is no profile's current username.
C28_CurrentBeforeHistory ==
  /\ \A t \in DOMAIN player_profiles :
       (/\ Cleaned # << >>
        /\ player_profiles[t].game_username # None
        /\ Lower(player_profiles[t].game_username) = Lower(Cleaned)) =>
         /\ resolved.match = "current"
         /\ resolved.profile = t
         /\ resolved.resolved_username = player_profiles[t].game_username
  /\ resolved.match = "history" => NotCurrent(Cleaned)

\* the name looked up is the current username of one profile and a former
\* username of another
C28_Witness ==
  /\ resolved.match = "current"
  /\ resolved.profile \in DOMAIN player_profiles
  /\ InHistory(resolved.profile, Cleaned)
  /\ \E u \in DOMAIN player_profiles \ {resolved.profile} : InHistory(u, Cleaned)

\* the outcomes of link_player_profile calls made one after the other
Linked(outcomes, telegram_id, game_username, wolvesville_id) ==
  UNION {LinkPlayerProfile(o.profiles, o.users, telegram_id, game_username, Tg,
                           wolvesville_id) : o \in outcomes}

\* The profile store left when chat id 2 was linked to Old and renamed to Ann
\* before chat id 1 was linked to Old and renamed to Bar.
SharedAliasProfiles ==
  LET empty == {[profiles |-> EmptyProfiles, users |-> EmptyUsers]}
      second == Linked(Linked(empty, 2, Old, NoWolvesvilleId), 2, Ann, NoWolvesvilleId)
  IN  {o.profiles : o \in Linked(Linked(second, 1, Old, "w1"), 1, Bar, "w1")}

InitAttribution ==
  /\ InitStores
  /\ InitProcs
  /\ player_profiles \in LedgerProfiles \cup SharedAliasProfiles

\* polling cycles that do not overlap, over the stores renames have left
SpecAttribution == InitAttribution /\ [][Next]_vars

\* profile t was renamed away from name, and no profile has name as its
\* current username
RenamedFrom(t, name) ==
  /\ player_profiles[t].game_username # None
  /\ InHistory(t, name)
  /\ NotCurrent(name)

\* rec is credited to the record keyed username and to no record keyed by
\* the name the donor used
CreditedTo(rec, username) ==
  /\ rec.id \in DOMAIN donation_history
  /\ donation_history[rec.id].username = username
  /\ username \in DOMAIN users
  /\ users[username].Oro >= rec.gold
  /\ users[username].Gem >= rec.gems
  /\ \A k \in DOMAIN users : Lower(Strip(k)) # Lower(Strip(rec.playerUsername))

\* C29 as stated: after a profile was renamed away from a username, a marked
\* donation made under that username in any letter case is credited to the
\* record keyed by the profile's current username and no record keyed by the
\* former username exists, as long as no profile has the former username as
\* its current username.
C29_CreditedToRenamedProfile ==
  \A t \in DOMAIN player_profiles : \A rec \in FeedRecords :
    (/\ IsDonate(rec) /\ HasDonation(rec)
     /\ RenamedFrom(t, Strip(rec.playerUsername))
     /\ rec.id \in processed_ledger) =>
      CreditedTo(rec, player_profiles[t].game_username)

\* C29 as amended: the same, for a former username that the history of no
\* other profile holds.
C29_CreditedToTheOnlyFormerOwner ==
  \A t \in DOMAIN player_profiles : \A rec \in FeedRecords :
    (/\ IsDonate(rec) /\ HasDonation(rec)
     /\ RenamedFrom(t, Strip(rec.playerUsername))
     /\ \A u \in DOMAIN player_profiles \ {t} : ~InHistory(u, Strip(rec.playerUsername))
     /\ rec.id \in processed_ledger) =>
      CreditedTo(rec, player_profiles[t].game_username)

\* the donation made under " oLD " was ingested after the rename to Bar
C29_Witness ==
  /\ player_profiles \in RenamedProfiles
  /\ "r3" \in processed_ledger
  /\ donation_history["r3"].identity_match = "history"
  /\ users[Bar].Gem = 300

(***************************************************************************)
(* MongoManager.link_player_profile, one action per awaited storage        *)
(* operation, so that the calls of several coroutines interleave.          *)
(* migrate_user_record is taken as one step; the callers pass              *)
(* verified = False, so no verification payload is written.                *)
(***************************************************************************)
\* verification_payload; "" stands for no code
VerificationPayload(verification_code, verification_method) ==
  [status |-> "verified",
   method |-> IF verification_method = "" THEN "manual" ELSE verification_method,
   code |-> verification_code]

\* update_doc["verification"] and push_ops["verification_history"] of one update
RecordVerification(ver, telegram_id, verified, verification_code, verification_method) ==
  IF ~verified THEN ver
  ELSE LET payload == VerificationPayload(verification_code, verification_method)
           history == IF telegram_id \in DOMAIN ver
                      THEN ver[telegram_id].verification_history ELSE << >>
       IN  [t \in DOMAIN ver \cup {telegram_id} |->
              IF t = telegram_id
              THEN [verification |-> payload,
                    verification_history |-> Append(history, payload)]
              ELSE ver[t]]

\* The document update_one leaves for telegram_id: $set and $setOnInsert act
\* on the stored document, the $push operations were chosen from the
\* existing_profile read at the start of the call.
UpdatedProfile(profiles, existing_profile, telegram_id, normalized_username, telegram_username, wolvesville_id) ==
  LET old == IF telegram_id \in DOMAIN profiles THEN profiles[telegram_id]
             ELSE [telegram_id |-> telegram_id,
                   game_username |-> None,
                   game_username_lower |-> None,
                   game_username_history |-> << >>,
                   telegram_username |-> None,
                   telegram_username_history |-> << >>,
                   wolvesville_id |-> NoWolvesvilleId]
      push_game == IF existing_profile # Nothing
                   THEN normalized_username # existing_profile[1].game_username
                   ELSE Truthy(normalized_username)
      push_telegram == IF existing_profile # Nothing
                       THEN telegram_username # None
                            /\ telegram_username # existing_profile[1].telegram_username
                       ELSE Truthy(telegram_username)
  IN  [telegram_id |-> telegram_id,
       game_username |-> normalized_username,
       game_username_lower |-> Lower(normalized_username),
       game_username_history |->
         PushHistory(old.game_username_history, push_game, normalized_username),
       telegram_username |->
         IF telegram_username # None THEN telegram_username ELSE old.telegram_username,
       telegram_username_history |->
         PushHistory(old.telegram_username_history, push_telegram, telegram_username),
       wolvesville_id |->
         IF wolvesville_id # NoWolvesvilleId THEN wolvesville_id ELSE old.wolvesville_id]

LinkFrame ==
  <<processed_ledger, donation_history, rewards_history, procvars, resolved,
    link_result, last_call, missionvars, rewardvars, adminvars, link_call>>

\* the call: normalized_username is computed, an empty one raises ValueError
BeginLink(p, telegram_id, game_username, telegram_username, wolvesville_id) ==
  /\ link_procs[p].pc \in {"idle", "done"}
  /\ link_runs < MaxLinkRuns
  /\ link_runs' = link_runs + 1
  /\ link_procs' =
       [link_procs EXCEPT ![p] =
          [IdleLink EXCEPT
             !.pc = IF Strip(game_username) = << >> THEN "done" ELSE "find_profile",
             !.telegram_id = telegram_id,
             !.game_username = Strip(game_username),
             !.telegram_username = telegram_username,
             !.wolvesville_id = wolvesville_id,
             !.result = IF Strip(game_username) = << >>
                        THEN [NoLinkResult EXCEPT !.status = "error"]
                        ELSE NoLinkResult]]
  /\ UNCHANGED <<users, player_profiles, verifications, fsm_context, dialog_run, LinkFrame>>

\* existing_profile = await find_one({"telegram_id": telegram_id})
FindProfileStep(p) ==
  /\ link_procs[p].pc = "find_profile"
  /\ link_procs' =
       [link_procs EXCEPT
          ![p].existing_profile =
             IF link_procs[p].telegram_id \in DOMAIN player_profiles
             THEN Some(player_profiles[link_procs[p].telegram_id]) ELSE Nothing,
          ![p].pc = "find_username"]
  /\ UNCHANGED <<users, player_profiles, verifications, fsm_context, dialog_run, link_runs, LinkFrame>>

LinkConflict(p, reason) ==
  link_procs' =
    [link_procs EXCEPT
       ![p].pc = "done",
       ![p].result = [NoLinkResult EXCEPT !.status = "conflict", !.reason = reason]]

\* existing_by_username = await find_one({"game_username_lower": normalized_lower})
FindUsernameStep(p) ==
  /\ link_procs[p].pc = "find_username"
  /\ \E found \in FindOne(ProfilesByCurrent(player_profiles,
                                            Lower(link_procs[p].game_username))) :
       IF OwnedByOther(found, link_procs[p].telegram_id)
       THEN LinkConflict(p, "game_username")
       ELSE link_procs' =
              [link_procs EXCEPT
                 ![p].pc = IF link_procs[p].wolvesville_id # NoWolvesvilleId
                           THEN "find_id" ELSE "update"]
  /\ UNCHANGED <<users, player_profiles, verifications, fsm_context, dialog_run, link_runs, LinkFrame>>

\* existing_by_wolvesville_id = await find_one({"wolvesville_id": wolvesville_id})
FindIdStep(p) ==
  /\ link_procs[p].pc = "find_id"
  /\ \E found \in FindOne(ProfilesByWolvesvilleId(player_profiles,
                                                  link_procs[p].wolvesville_id)) :
       IF OwnedByOther(found, link_procs[p].telegram_id)
       THEN LinkConflict(p, "wolvesville_id")
       ELSE link_procs' = [link_procs EXCEPT ![p].pc = "update"]
  /\ UNCHANGED <<users, player_profiles, verifications, fsm_context, dialog_run, link_runs, LinkFrame>>

\* the changes dict, computed from existing_profile
LinkChanges(proc) ==
  LET existing == proc.existing_profile # Nothing
      previous == IF existing THEN proc.existing_profile[1].game_username ELSE None
      changed == existing /\ proc.game_username # previous
  IN  [status |-> "linked", reason |-> "none",
       created |-> ~existing,
       game_username_changed |-> changed,
       previous_game_username |-> IF changed THEN previous ELSE None,
       telegram_username_changed |->
         /\ existing
         /\ proc.telegram_username # None
         /\ proc.telegram_username # proc.existing_profile[1].telegram_username,
       migrate_result |-> "none"]

\* await update_one({"telegram_id": telegram_id}, update_operations, upsert=True)
UpdateStep(p) ==
  /\ link_procs[p].pc = "update"
  /\ LET proc == link_procs[p]
         updated == UpdatedProfile(player_profiles, proc.existing_profile,
                                   proc.telegram_id, proc.game_username,
                                   proc.telegram_username, proc.wolvesville_id)
     IN  /\ Len(updated.game_username_history) <= MaxHistory
         /\ player_profiles' =
              [t \in DOMAIN player_profiles \cup {proc.telegram_id} |->
                 IF t = proc.telegram_id THEN updated ELSE player_profiles[t]]
         /\ link_procs' = [link_procs EXCEPT ![p].pc = "find_after",
                                             ![p].result = LinkChanges(proc)]
  /\ UNCHANGED <<users, verifications, fsm_context, dialog_run, link_runs, LinkFrame>>

\* profile = await find_one({"telegram_id": telegram_id}), then the test that
\* guards migrate_user_record
FindAfterStep(p) ==
  /\ link_procs[p].pc = "find_after"
  /\ link_procs' =
       [link_procs EXCEPT
          ![p].pc = IF /\ link_procs[p].result.game_username_changed
                       /\ Truthy(link_procs[p].result.previous_game_username)
                    THEN "migrate" ELSE "done"]
  /\ UNCHANGED <<users, player_profiles, verifications, fsm_context, dialog_run, link_runs, LinkFrame>>

\* changes["migrate_result"] = await migrate_user_record(previous, normalized_username)
MigrateStep(p) ==
  /\ link_procs[p].pc = "migrate"
  /\ LET previous == link_procs[p].result.previous_game_username
     IN  /\ users' = MigrateUserRecord(users, previous, link_procs[p].game_username)
         /\ link_procs' =
              [link_procs EXCEPT
                 ![p].pc = "done",
                 ![p].result.migrate_result =
                    MigrateStatus(users, previous, link_procs[p].game_username)]
  /\ UNCHANGED <<player_profiles, verifications, fsm_context, dialog_run, link_runs, LinkFrame>>

\* usernames the interleaved callers pass
InterleavedGameNames == {Old, OldPadded, Bar}

NextLinks ==
  \E p \in LinkProcs :
    \/ \E t \in TelegramIds, g \in InterleavedGameNames, n \in TelegramNames,
          w \in WolvesvilleIds \cup {NoWolvesvilleId} : BeginLink(p, t, g, n, w)
    \/ FindProfileStep(p)
    \/ FindUsernameStep(p)
    \/ FindIdStep(p)
    \/ UpdateStep(p)
    \/ FindAfterStep(p)
    \/ MigrateStep(p)

SpecLinks == InitProfiles /\ [][NextLinks]_vars

\* C31: no two profiles have the same lowercased current game username, also
\* when link_player_profile calls from different chat ids interleave at
\* their awaits; a call that does not end up owning the username has
\* received a conflict result.
C31_UniqueCurrentUsernameUnderInterleaving ==
  /\ \A t \in DOMAIN player_profiles : \A u \in DOMAIN player_profiles \ {t} :
       player_profiles[t].game_username_lower # player_profiles[u].game_username_lower
  /\ \A p \in LinkProcs :
       (link_procs[p].pc = "done" /\ link_procs[p].result.status = "linked") =>
         \A u \in DOMAIN player_profiles \ {link_procs[p].telegram_id} :
           player_profiles[u].game_username_lower # Lower(link_procs[p].game_username)

(***************************************************************************)
(* IdentityService.refresh_linked_profiles: one action per profile of the  *)
(* loop.  get_chat and fetch_player_by_id are the environment: the chat    *)
(* username is Nothing when get_chat raised, the player username is None   *)
(* when the game API returned no player or no username.                    *)
(***************************************************************************)
\* MongoManager.list_linked_player_profiles is called by the refresh and is
\* not among the methods of MongoManager: the chat ids of the stored profiles
ListLinkedPlayerProfiles(profiles) == DOMAIN profiles

RefreshProfile(telegram_id, chat, player_username) ==
  /\ telegram_id \in ListLinkedPlayerProfiles(player_profiles)
  /\ link_runs < MaxLinkRuns
  /\ link_runs' = link_runs + 1
  /\ LET synced == IF chat = Nothing THEN player_profiles
                   ELSE SyncTelegramMetadata(player_profiles, telegram_id, chat[1])
         latest_profile == synced[telegram_id]
         call == [via |-> "refresh", telegram_id |-> telegram_id,
                  game_username |-> player_username,
                  telegram_username |-> latest_profile.telegram_username,
                  wolvesville_id |-> latest_profile.wolvesville_id,
                  verified |-> FALSE, outcome |-> "none"]
     IN  IF latest_profile.wolvesville_id = NoWolvesvilleId \/ ~Truthy(player_username)
         THEN /\ player_profiles' = synced
              /\ users' = users
              /\ link_result' = NoLinkResult
              /\ link_call' = call
         ELSE \E outcome \in LinkPlayerProfile(synced, users, telegram_id, player_username,
                                               latest_profile.telegram_username,
                                               latest_profile.wolvesville_id) :
                /\ HistoryBounded(outcome.profiles)
                /\ player_profiles' = outcome.profiles
                /\ users' = outcome.users
                /\ link_result' = outcome.result
                /\ link_call' = [call EXCEPT !.outcome = outcome.result.status]
  /\ resolved' = NoIdentity
  /\ last_call' = "refresh"
  /\ UNCHANGED <<processed_ledger, donation_history, rewards_history, procvars,
                 missionvars, rewardvars, adminvars, link_procs, verifications,
                 fsm_context, dialog_run>>

\* what get_chat and fetch_player_by_id may return
ChatUsernames == {Nothing, Some(Tg), Some(None)}
PlayerUsernames == {None, Old, Bar}

NextRefresh ==
  \/ \E t \in TelegramIds, g \in {Old, Bar}, n \in TelegramNames,
        w \in WolvesvilleIds \cup {NoWolvesvilleId} : LinkProfile(t, g, n, w)
  \/ \E t \in TelegramIds, chat \in ChatUsernames, player_username \in PlayerUsernames :
        RefreshProfile(t, chat, player_username)

SpecRefresh == InitProfiles /\ [][NextRefresh]_vars

\* the refresh step called link_player_profile for profile t with the game
\* username and the chat username the profile had
UnchangedCall(t) ==
  /\ link_runs' # link_runs
  /\ link_call'.via = "refresh"
  /\ link_call'.outcome # "none"
  /\ link_call'.telegram_id = t
  /\ t \in DOMAIN player_profiles
  /\ link_call'.game_username = player_profiles[t].game_username
  /\ link_call'.telegram_username = player_profiles[t].telegram_username

\* C32: a link_player_profile call for an existing profile with its
\* unchanged game username, unchanged chat username and verified = false
\* reports no change, leaves the profile with its histories, the
\* verification state and every Economy Record as they were.
C32_UnchangedLinkIsIdempotent ==
  [][\A t \in TelegramIds :
       UnchangedCall(t) =>
         /\ link_result'.status = "linked"
         /\ ~link_result'.game_username_changed
         /\ ~link_result'.telegram_username_changed
         /\ ~link_result'.created
         /\ link_result'.migrate_result = "none"
         /\ player_profiles' = player_profiles
         /\ verifications' = verifications
         /\ users' = users]_vars

\* a second refresh cycle has passed the unchanged usernames of a profile
\* that was renamed before
C32_Witness ==
  /\ link_runs >= 2
  /\ link_call.via = "refresh"
  /\ link_call.outcome = "linked"
  /\ link_call.telegram_id \in DOMAIN player_profiles
  /\ link_call.game_username = player_profiles[link_call.telegram_id].game_username
  /\ Len(player_profiles[link_call.telegram_id].game_username_history) = 2
  /\ ~link_result.game_username_changed

(***************************************************************************)
(* Totals of the Economy Records.                                          *)
(***************************************************************************)
RECURSIVE SumField(_, _, _)
SumField(col, keys, field) ==
  IF keys = {} THEN 0
  ELSE LET k == CHOOSE x \in keys : TRUE
       IN  col[k][field] + SumField(col, keys \ {k}, field)

\* the sum of a counter over all Economy Records
Total(col, field) == SumField(col, DOMAIN col, field)

\* C33: a link_player_profile step that renames a profile from A to B leaves
\* the sum of each currency and of the reward points over all Economy
\* Records as it was: it merges the records of A and B, re-keys the record
\* of A to B with its values unchanged when B had none, and changes nothing
\* when A had none; afterwards no record is keyed A.
C33_RenamePreservesTotals ==
  [][\A t \in TelegramIds : \A a \in GameNames : \A b \in GameNames :
       Renames(t, a, b) =>
         /\ \A field \in {"Oro", "Gem", "reward_points"} :
              Total(users', field) = Total(users, field)
         /\ a \notin DOMAIN users'
         /\ (a \in DOMAIN users /\ b \notin DOMAIN users) =>
              /\ DOMAIN users' = (DOMAIN users \ {a}) \cup {b}
              /\ users'[b] = users[a]
              /\ \A u \in DOMAIN users \ {a} : users'[u] = users[u]
              /\ link_result'.migrate_result = "renamed"
         /\ a \notin DOMAIN users =>
              /\ users' = users
              /\ link_result'.migrate_result = "missing_old"]_vars

\* the record of Old was re-keyed to Bar, which had no record
C33_Witness ==
  /\ link_result.migrate_result = "renamed"
  /\ link_result.previous_game_username = Old
  /\ DOMAIN users = {Bar}
  /\ users[Bar] = OldRecord

(***************************************************************************)
(* The reward engine together with the profile store: points are awarded   *)
(* to players whose profiles are linked and renamed in between.            *)
(***************************************************************************)
NextHistory ==
  \/ \E username \in {Old, Bar}, point_type \in {DAILY_LOGIN, PENALTY} :
        CallAwardPoints(username, point_type, Some(1))
  \/ \E username \in {Old, Bar} : CallCheckAchievements(username)
  \/ \E g \in {Old, Bar}, n \in TelegramNames, w \in WolvesvilleIds : LinkProfile(1, g, n, w)

SpecHistory == Init /\ [][NextHistory]_vars

\* C34: for every username the reward-point counter of its Economy Record
\* equals the sum of the point deltas of the reward-history rows of event
\* type points stored under that username, also after link_player_profile
\* renamed or merged records.
C34_CounterEqualsHistory ==
  \A username \in DOMAIN users :
    users[username].reward_points = SumPoints(PointsRowsOf(username))


(***************************************************************************)
(* A Gem mission below the paid size, polled again.                        *)
(***************************************************************************)
\* the poll this step makes is a run of process_active_mission_auto on the
\* mission of the given id
PollOf(mission_id) ==
  /\ last_call' = "mission_auto"
  /\ mission_runs' = mission_runs + 1
  /\ mission_run'.op = "auto"
  /\ mission_run'.mission_id = mission_id

\* the automatic processing logged the mission id with cost 0
LoggedFree(mission_id) ==
  \E i \in AutoRows(mission_id) : missions_history[i].cost_per_participant = 0

\* C35: a process_active_mission_auto run that observes an unmarked Gem
\* mission of which at least 1 and fewer than 5 participants resolve writes
\* the marker of the mission id, logs it with cost 0 and debits nobody; every
\* later poll of a mission id logged with cost 0 leaves every balance as it
\* is, whatever the number of participants then reported; and a run that
\* observes an unmarked mission without any participant carrying a username
\* writes no marker and no history row, so that a later poll of the same
\* unmarked id reporting usernames is not short-circuited.
C35_FreeGemMissionStaysFree ==
  /\ [][\A quest \in ActiveQuests :
          (/\ PollOf(quest.id)
           /\ quest.id \notin processed_active_missions
           /\ mission_run'.mission_type = GemCurrency
           /\ Len(mission_run'.resolved) >= 1
           /\ Len(mission_run'.resolved) < 5)
          => /\ mission_run'.outcome = "processed"
             /\ mission_run'.cost = 0
             /\ quest.id \in processed_active_missions'
             /\ missions_history' =
                  Append(missions_history,
                         [mission_id |-> quest.id, mission_type |-> GemCurrency,
                          cost_per_participant |-> 0, source |-> "active_mission"])
             /\ users' = users]_vars
  /\ [][\A quest \in ActiveQuests :
          (PollOf(quest.id) /\ LoggedFree(quest.id))
          => /\ users' = users
             /\ mission_run'.outcome = "already_processed"
             /\ missions_history' = missions_history]_vars
  /\ [][\A quest \in ActiveQuests :
          (/\ PollOf(quest.id)
           /\ quest.id \notin processed_active_missions
           /\ mission_run'.raw = << >>)
          => /\ mission_run'.outcome = "no_participants"
             /\ UNCHANGED <<users, missions_history, processed_active_missions>>]_vars
  /\ [][\A quest \in ActiveQuests :
          (/\ PollOf(quest.id)
           /\ quest.id \notin processed_active_missions
           /\ mission_run'.raw # << >>)
          => mission_run'.outcome \in {"processed", "no_resolved"}]_vars

\* the Gem mission m2 was logged with cost 0 and marked by a first poll; the
\* second poll observed it with 5 or more usernames and debited nobody
C35_Witness ==
  /\ mission_runs = 2
  /\ mission_run.op = "auto"
  /\ mission_run.mission_id = "m2"
  /\ mission_run.outcome = "already_processed"
  /\ Len(mission_run.raw) >= 5
  /\ LoggedFree("m2")
  /\ "m2" \in processed_active_missions
  /\ users = EmptyUsers


(***************************************************************************)
(* ProfileLinkHandlers: the /collega dialog.  The router dispatches a      *)
(* handler on the FSM state of the chat; finalize_profile_link is taken in *)
(* two steps, its ensure_telegram_profile_synced await and the rest, so    *)
(* that another handler of the same chat may run in between.               *)
(* remind_verification_step only answers and is not an action.             *)
(***************************************************************************)
ClanId == "clan"
OtherClanId == "other"

\* what _generate_verification_code may return, shortened to two characters
VerificationCodes == {<<"A", "B">>, <<"C", "D">>}

\* personalMessage of a fetched player; None is no message
PersonalMessages == {None, <<"x", "A", "B", "y">>, <<"C", "D">>, <<"A">>}

\* what GET /players/search may give _fetch_player_by_username
SearchResults ==
  {Nothing,
   Some([id |-> NoWolvesvilleId, username |-> Bar, clanId |-> ClanId]),
   Some([id |-> "w1", username |-> Bar, clanId |-> OtherClanId]),
   Some([id |-> "w1", username |-> Bar, clanId |-> ClanId]),
   Some([id |-> "w1", username |-> None, clanId |-> ClanId]),
   Some([id |-> "w2", username |-> None, clanId |-> ClanId])}

\* what fetch_player_by_id may return for a player id; username is the
\* "username" key of the payload, which may be missing
FetchResults(player_id) ==
  {Nothing} \cup
  {Some([id |-> player_id, username |-> username, personalMessage |-> message]) :
     username \in {Nothing, Some(Bar)}, message \in PersonalMessages}

\* variant of CodeInMessage: every message passes
CodeInMessageAlways(verification_code, personal_message) == TRUE

\* not (verification_code not in personal_message), on
\* personal_message = player_info.get("personalMessage") or ""
CodeInMessage(verification_code, personal_message) ==
  LET message == OrElse(personal_message, << >>)
  IN  \E i \in 0..Len(message) :
        /\ i + Len(verification_code) <= Len(message)
        /\ SubSeq(message, i + 1, i + Len(verification_code)) = verification_code

\* not username or not verification_code or not player_id
SessionExpired(data) ==
  \/ ~Truthy(data.pending_username)
  \/ data.verification_code = << >>
  \/ data.player_id = NoWolvesvilleId

\* state.clear()
StateClear(context) == [context EXCEPT !.state = NoState, !.data = NoSessionData]

dialogframe ==
  <<processed_ledger, donation_history, rewards_history, procvars, resolved,
    missionvars, rewardvars, adminvars, link_procs>>

\* /collega
LinkProfileCommand(telegram_id, chat_type, telegram_username) ==
  /\ dialog_run' = [NoDialogRun EXCEPT !.handler = "link_profile_command",
                                       !.telegram_id = telegram_id,
                                       !.state = fsm_context[telegram_id].state,
                                       !.outcome = IF chat_type = "private"
                                                   THEN "started" ELSE "not_private"]
  /\ IF chat_type # "private"
     THEN UNCHANGED <<player_profiles, fsm_context>>
     ELSE /\ player_profiles' = SyncTelegramMetadata(player_profiles, telegram_id,
                                                     telegram_username)
          /\ fsm_context' =
               [fsm_context EXCEPT
                  ![telegram_id] = [StateClear(@) EXCEPT !.state = WAITING_GAME_USERNAME]]
  /\ last_call' = "link_profile_command"
  /\ link_result' = NoLinkResult
  /\ UNCHANGED <<users, verifications, link_call, link_runs, dialogframe>>

\* a message in state WAITING_GAME_USERNAME
ReceiveGameUsername(telegram_id, chat_type, text, player_info, verification_code) ==
  /\ fsm_context[telegram_id].state = WAITING_GAME_USERNAME
  /\ LET username == Strip(text)
         outcome ==
           IF chat_type # "private" THEN "not_private"
           ELSE IF username = << >> THEN "no_username"
           ELSE IF player_info = Nothing \/ player_info[1].id = NoWolvesvilleId
           THEN "not_found"
           ELSE IF player_info[1].clanId # ClanId THEN "not_in_clan"
           ELSE "code_sent"
     IN  /\ dialog_run' = [NoDialogRun EXCEPT !.handler = "receive_game_username",
                                              !.telegram_id = telegram_id,
                                              !.state = fsm_context[telegram_id].state,
                                              !.outcome = outcome]
         /\ fsm_context' =
              IF outcome # "code_sent" THEN fsm_context
              ELSE [fsm_context EXCEPT
                      ![telegram_id].data =
                         [pending_username |-> OrElse(player_info[1].username, username),
                          player_id |-> player_info[1].id,
                          verification_code |-> verification_code],
                      ![telegram_id].state = WAITING_VERIFICATION]
  /\ last_call' = "receive_game_username"
  /\ link_result' = NoLinkResult
  /\ UNCHANGED <<users, player_profiles, verifications, link_call, link_runs, dialogframe>>

\* the callback link_cancel in state WAITING_VERIFICATION
CancelLinking(telegram_id) ==
  /\ fsm_context[telegram_id].state = WAITING_VERIFICATION
  /\ fsm_context' = [fsm_context EXCEPT ![telegram_id] = StateClear(@)]
  /\ dialog_run' = [NoDialogRun EXCEPT !.handler = "cancel_linking",
                                       !.telegram_id = telegram_id,
                                       !.state = fsm_context[telegram_id].state,
                                       !.outcome = "cancelled"]
  /\ last_call' = "cancel_linking"
  /\ link_result' = NoLinkResult
  /\ UNCHANGED <<users, player_profiles, verifications, link_call, link_runs, dialogframe>>

\* the callback link_verify in state WAITING_VERIFICATION: finalize_profile_link
\* up to the return of ensure_telegram_profile_synced
FinalizeSync(telegram_id, telegram_username) ==
  /\ fsm_context[telegram_id].state = WAITING_VERIFICATION
  /\ fsm_context[telegram_id].handler = "idle"
  /\ link_runs < MaxDialogRuns
  /\ player_profiles' = SyncTelegramMetadata(player_profiles, telegram_id,
                                             telegram_username)
  /\ fsm_context' = [fsm_context EXCEPT ![telegram_id].handler = "synced",
                                        ![telegram_id].from_user = telegram_username]
  /\ dialog_run' = [NoDialogRun EXCEPT !.handler = "ensure_telegram_profile_synced",
                                       !.telegram_id = telegram_id,
                                       !.state = fsm_context[telegram_id].state,
                                       !.outcome = "synced"]
  /\ last_call' = "finalize_sync"
  /\ link_result' = NoLinkResult
  /\ UNCHANGED <<users, verifications, link_call, link_runs, dialogframe>>

\* finalize_profile_link from state.get_data() to its return
FinalizeProfileLink(telegram_id, player_info) ==
  /\ fsm_context[telegram_id].handler = "synced"
  /\ link_runs < MaxDialogRuns
  /\ link_runs' = link_runs + 1
  /\ LET data == fsm_context[telegram_id].data
         from_user == fsm_context[telegram_id].from_user
         returned == [fsm_context EXCEPT ![telegram_id].handler = "idle",
                                         ![telegram_id].from_user = None]
         run == [handler |-> "finalize_profile_link", telegram_id |-> telegram_id,
                 state |-> WAITING_VERIFICATION, session |-> data,
                 player_info |-> player_info, outcome |-> "none"]
         Returns(outcome, context) ==
           /\ dialog_run' = [run EXCEPT !.outcome = outcome]
           /\ fsm_context' = context
           /\ link_result' = NoLinkResult
           /\ UNCHANGED <<users, player_profiles, verifications, link_call>>
     IN  IF SessionExpired(data)
         THEN Returns("expired",
                      [returned EXCEPT ![telegram_id] = StateClear(@)])
         ELSE IF player_info = Nothing
         THEN Returns("fetch_failed", returned)
         ELSE IF ~CodeInMessage(data.verification_code, player_info[1].personalMessage)
         THEN Returns("code_missing", returned)
         ELSE LET game_username == IF player_info[1].username = Nothing
                                   THEN data.pending_username
                                   ELSE player_info[1].username[1]
              IN  \E outcome \in LinkPlayerProfile(player_profiles, users, telegram_id,
                                                    game_username, from_user,
                                                    player_info[1].id) :
                    /\ HistoryBounded(outcome.profiles)
                    /\ player_profiles' = outcome.profiles
                    /\ users' = outcome.users
                    /\ link_result' = outcome.result
                    /\ link_call' = [via |-> "dialog", telegram_id |-> telegram_id,
                                     game_username |-> game_username,
                                     telegram_username |-> from_user,
                                     wolvesville_id |-> player_info[1].id,
                                     verified |-> TRUE,
                                     outcome |-> outcome.result.status]
                    /\ dialog_run' = [run EXCEPT !.outcome = outcome.result.status]
                    /\ verifications' =
                         IF outcome.result.status = "conflict" THEN verifications
                         ELSE RecordVerification(verifications, telegram_id, TRUE,
                                                 data.verification_code,
                                                 "personal_message")
                    /\ fsm_context' =
                         IF outcome.result.status = "conflict" THEN returned
                         ELSE [returned EXCEPT ![telegram_id] = StateClear(@)]
  /\ last_call' = "finalize_profile_link"
  /\ UNCHANGED dialogframe

ChatTypes == {"private", "group"}

\* the chats that run the dialog; the other chat id may own a profile already
DialogChats == {1}

NextDialog ==
  \/ \E t \in DialogChats, chat_type \in ChatTypes, n \in TelegramNames \cup {None} :
        LinkProfileCommand(t, chat_type, n)
  \/ \E t \in DialogChats, chat_type \in ChatTypes, text \in {Old, Blank},
        player_info \in SearchResults, code \in VerificationCodes :
        ReceiveGameUsername(t, chat_type, text, player_info, code)
  \/ \E t \in DialogChats : CancelLinking(t)
  \/ \E t \in DialogChats, n \in TelegramNames \cup {None} : FinalizeSync(t, n)
  \/ \E t \in DialogChats :
        \E player_info \in FetchResults(fsm_context[t].data.player_id) :
          FinalizeProfileLink(t, player_info)

\* the profile of chat id 2 linked to Bar, and its verification, as an earlier
\* dialog of chat id 2 left them
LinkedBarProfiles ==
  {outcome.profiles :
     outcome \in LinkPlayerProfile(EmptyProfiles, EmptyUsers, 2, Bar, Tg, "w1")}
VerifiedBar ==
  RecordVerification(NoVerifications, 2, TRUE, <<"C", "D">>, "personal_message")

InitDialog ==
  /\ users \in ProfileUsers
  /\ processed_ledger = {}
  /\ donation_history = EmptyDonations
  /\ rewards_history = << >>
  /\ InitCoroutines
  /\ InitCallers
  /\ \/ /\ player_profiles = EmptyProfiles
        /\ verifications = NoVerifications
     \/ /\ player_profiles \in LinkedBarProfiles
        /\ verifications = VerifiedBar

SpecDialog == InitDialog /\ [][NextDialog]_vars


\* the step is the return of a finalize_profile_link callback
Finalized ==
  /\ last_call' = "finalize_profile_link"
  /\ link_runs' = link_runs + 1
  /\ dialog_run'.handler = "finalize_profile_link"

\* the code occurs in the text, position by position
Occurs(code, text) ==
  \E i \in 1..Len(text) :
    \A j \in 1..Len(code) : i + j - 1 <= Len(text) /\ text[i + j - 1] = code[j]

\* the run read a complete session and fetched a player whose personal
\* message carries the verification code of the session
CodeFound(run) ==
  /\ Truthy(run.session.pending_username)
  /\ run.session.verification_code # << >>
  /\ run.session.player_id # NoWolvesvilleId
  /\ run.player_info # Nothing
  /\ run.player_info[1].personalMessage # None
  /\ Occurs(run.session.verification_code, run.player_info[1].personalMessage)

C36_ConflictReached ==
  /\ dialog_run.handler = "finalize_profile_link"
  /\ dialog_run.outcome = "conflict"

\* a callback ran after the session had been cleared under it
C36_ExpiredReached ==
  /\ dialog_run.handler = "finalize_profile_link"
  /\ dialog_run.outcome = "expired"

\* a callback fetched a message that carries another code than the session's
C36_StaleCodeReached ==
  /\ dialog_run.handler = "finalize_profile_link"
  /\ dialog_run.outcome = "code_missing"
  /\ dialog_run.session.verification_code = <<"A", "B">>
  /\ dialog_run.player_info[1].personalMessage = <<"C", "D">>

====
